---- MODULE Spec2Model ----
(***************************************************************************)
(* Usage agent (client/agent.py) and collector (server/server.py).         *)
(*                                                                         *)
(* Numbers: every decimal quantity (CPU %, GPU %, free GB) is an integer   *)
(* count of thousandths, so 95.5 % is 95500 and 19.996 GB is 19996.        *)
(* Instants are integer seconds.  Python None is NoneVal for numbers and   *)
(* the JSON token "null" on the wire.  A JSON body is a record from the    *)
(* keys present to JSON tokens (strings): "null", a number as Python       *)
(* prints it, or a string in double quotes.                                *)
(***************************************************************************)
EXTENDS Integers, Sequences, FiniteSets, TLC

\* ------------------------------------------------------------------ bounds
\* Number of loop iterations of the agent that the model follows.
MaxTicks == 2
\* Number of requests the collector receives in the collector-only model.
MaxRequests == 3

\* ------------------------------------------------------- decimal encoding
\* Python None where a number is expected.
NoneVal == -1

\* Python round(v, ndigits) for ndigits in {1, 2} on a value in thousandths:
\* the closest multiple of 10^-ndigits, ties toward the even multiple.
PyRound(v, ndigits) ==
    LET step == IF ndigits = 1 THEN 100 ELSE 10
        q    == v \div step
        r    == v % step
    IN  IF 2 * r < step THEN q * step
        ELSE IF 2 * r > step THEN (q + 1) * step
        ELSE IF q % 2 = 0 THEN q * step ELSE (q + 1) * step

\* repr(float) as json.dumps prints it: the shortest decimal, with at least
\* one digit after the point (95.5, 90.0, 19.99, 90.004).
FloatRepr(n) ==
    LET ip == n \div 1000
        fr == n % 1000
        d1 == fr \div 100
        d2 == (fr \div 10) % 10
        d3 == fr % 10
    IN  ToString(ip) \o "." \o
        (IF d3 # 0 THEN ToString(d1) \o ToString(d2) \o ToString(d3)
         ELSE IF d2 # 0 THEN ToString(d1) \o ToString(d2)
         ELSE ToString(d1))

\* The '.1f' format of the dashboard: one decimal, rounded.
Format1f(n) ==
    LET r == PyRound(n, 1)
    IN  ToString(r \div 1000) \o "." \o ToString((r % 1000) \div 100)

\* ------------------------------------------------------------ JSON tokens
JNull == "null"
JStr(s) == "\"" \o s \o "\""
JNum(n) == IF n = NoneVal THEN JNull ELSE FloatRepr(n)

\* datetime.isoformat() of an instant: day and second of the day.
SecondsPerDay == 86400
IsoFormat(t) == ToString(t \div SecondsPerDay) \o "T" \o ToString(t % SecondsPerDay)
\* strftime('%y%m%d'): the calendar day of an instant.
DayStr(t) == ToString(t \div SecondsPerDay)

\* ================================================================== AGENT
VARIABLES
    config_ini,          \* config.ini as the process finds it
    app_config,          \* the dictionary load_app_config returned
    requests_available,  \* TRUE iff the requests module could be imported
    host,                \* the kind of host: names what its providers can return
    pc,                  \* position of main() in its loop
    tick,                \* index of the current loop iteration, from 1
    tick_limit,          \* iterations followed in this behaviour
    faults,              \* failures injected so far
    now,                 \* datetime.now(), in seconds
    last_ping_time,      \* NoneVal or the instant of the last ping attempt
    current_time,        \* timestamp of the tick's machine/application records
    machine_payload,     \* <<>> or <<dict>>
    application_payload, \* <<>> or <<dict>>
    json_machine_data_for_log,  \* <<>> (None) or <<body>>
    json_app_data_for_log,      \* <<>> (None) or <<body>>
    readings,            \* cpu_val, gpu_val, free_space_gb_val of the tick
    events,              \* history: every append, POST and sleep, in order
    signalled,           \* TRUE once the process received an external signal
    log_files            \* os.listdir(log_folder): the names in the log folder

agentVars == <<config_ini, app_config, requests_available, host, pc, tick, tick_limit,
               faults, now, last_ping_time, current_time, machine_payload,
               application_payload, json_machine_data_for_log,
               json_app_data_for_log, readings, events, signalled,
               log_files>>

\* Failures injected in one behaviour (failed append, failed send, record
\* that cannot be serialized, error escaping into the loop's handler).
MaxFaults == 2

\* ------------------------------------------------------ inputs of the agent
NoAddress == ""
ServerAddress == "collector:5000"
Hostname == "PC1"
HostIp == "10.0.0.5"

\* load_app_config: the defaults dictionary and the values a config.ini may
\* override them with.
ConfigDefaults ==
    [server_address |-> NoAddress, cpu_alert_threshold |-> 90,
     gpu_alert_threshold |-> 90, log_folder |-> ".",
     disk_space_alert_threshold_gb |-> 20, ping_interval_seconds |-> 60,
     log_retention_days |-> 14]

\* Raw readings in thousandths.  get_cpu_usage / get_gpu_usage /
\* get_free_disk_space return None when the capability is missing or fails.
Reading(c, g, d) == [cpu_val |-> c, gpu_val |-> g, free_space_gb_val |-> d]
WideHost ==
    {Reading(c, NoneVal, 50500) :
        c \in {NoneVal, 30000, 89990, 90000, 90004, 90050, 95500, 95530}}
    \cup {Reading(NoneVal, g, 50500) : g \in {90000, 96260}}
    \cup {Reading(NoneVal, NoneVal, d) :
             d \in {NoneVal, 19990, 19994, 19996, 20000, 20004}}
    \cup {Reading(95530, 96260, 19996)}
\* CPU readings on both sides of the agent's and the collector's thresholds.
WatchedHost ==
    {Reading(c, NoneVal, 50500) : c \in {NoneVal, 75500, 90040, 93000, 95500}}
QuietHost == {Reading(NoneVal, NoneVal, 50500)}
BusyHost == {Reading(95530, 96260, 19996)}
\* The readings the providers of a host can return in one tick.
ProviderReadings(h) ==
    CASE h = "wide" -> WideHost
      [] h = "busy" -> BusyHost
      [] h = "watched" -> WatchedHost
      [] OTHER -> QuietHost

StartTimes == {0, SecondsPerDay - 30}

\* The agents followed: configuration, requests module, host, start instant.
Scenario(cfg, requests, h, start) ==
    [cfg |-> cfg, requests |-> requests, host |-> h, start |-> start]
Connected == [ConfigDefaults EXCEPT !.server_address = ServerAddress]
Sensitive == [ConfigDefaults EXCEPT !.server_address = ServerAddress,
                                    !.cpu_alert_threshold = 50,
                                    !.ping_interval_seconds = 30]
Tolerant == [Connected EXCEPT !.cpu_alert_threshold = 95]
Scenarios ==
    { Scenario(Connected, TRUE, "busy", 0),
      Scenario(Sensitive, TRUE, "busy", SecondsPerDay - 30),
      Scenario(ConfigDefaults, TRUE, "quiet", 0),
      Scenario(Connected, FALSE, "quiet", 0) }
WatchedScenarios ==
    { Scenario(Connected, TRUE, "watched", SecondsPerDay - 30),
      Scenario(Sensitive, TRUE, "watched", SecondsPerDay - 30),
      Scenario(Tolerant, TRUE, "watched", SecondsPerDay - 30) }
PayloadScenarios ==
    { Scenario(Connected, TRUE, "wide", 0),
      Scenario(Sensitive, TRUE, "wide", 0),
      Scenario(ConfigDefaults, TRUE, "wide", 0) }

\* -------------------------------------------------------------- payloads
\* json.dumps of the dictionaries main() builds.
\* Mutant: the GPU value is written under both usage keys.
DumpsMachineCopiesGpu(p) ==
    [log_type |-> JStr(p.log_type), timestamp |-> JStr(p.timestamp),
     netbios_name |-> JStr(p.netbios_name), ip_address |-> JStr(p.ip_address),
     free_disk_space_gb |-> JNum(p.free_disk_space_gb),
     cpu_usage_percent |-> JNum(p.gpu_usage_percent),
     gpu_usage_percent |-> JNum(p.gpu_usage_percent),
     os_name |-> JStr(p.os_name), os_version |-> JStr(p.os_version)]

DumpsMachine(p) ==
    [log_type |-> JStr(p.log_type), timestamp |-> JStr(p.timestamp),
     netbios_name |-> JStr(p.netbios_name), ip_address |-> JStr(p.ip_address),
     free_disk_space_gb |-> JNum(p.free_disk_space_gb),
     cpu_usage_percent |-> JNum(p.cpu_usage_percent),
     gpu_usage_percent |-> JNum(p.gpu_usage_percent),
     os_name |-> JStr(p.os_name), os_version |-> JStr(p.os_version)]

DumpsApplication(p) ==
    [log_type |-> JStr(p.log_type), timestamp |-> JStr(p.timestamp),
     netbios_name |-> JStr(p.netbios_name),
     active_window_title |-> JStr(p.active_window_title)]

DumpsPing(p) ==
    [log_type |-> JStr(p.log_type), timestamp |-> JStr(p.timestamp),
     netbios_name |-> JStr(p.netbios_name), ip_address |-> JStr(p.ip_address)]

DumpsPingStatus(p) ==
    [event_type |-> JStr(p.event_type), timestamp |-> JStr(p.timestamp),
     server_address |-> JStr(p.server_address), status |-> JStr(p.status)]

\* The name of the day's file inside the log folder.
LogSuffix == "Log_Usage_Windows.log"
LogFileName(t) == DayStr(t) \o LogSuffix

\* Mutant: the file name follows the calendar with one tick's delay.
LogPathLags(folder, t) ==
    folder \o "/" \o DayStr(IF t >= 30 THEN t - 30 ELSE t) \o "Log_Usage_Windows.log"

\* os.path.join(log_folder, <yymmdd> + 'Log_Usage_Windows.log')
LogPath(folder, t) == folder \o "/" \o DayStr(t) \o "Log_Usage_Windows.log"

\* Thresholding of the free-disk reading (main, lines 387-399): the reading is
\* rounded first and the ROUNDED value is compared with the threshold.
PayloadFreeDisk(free_space_gb_val, threshold_gb) ==
    LET current_free_space_gb_rounded ==
            IF free_space_gb_val # NoneVal THEN PyRound(free_space_gb_val, 2)
            ELSE NoneVal
    IN  IF current_free_space_gb_rounded # NoneVal
           /\ current_free_space_gb_rounded < threshold_gb * 1000
        THEN current_free_space_gb_rounded
        ELSE NoneVal

\* Mutant: the comparison with the threshold made inclusive.
FinalUsageInclusive(val, alert_threshold) ==
    IF val # NoneVal /\ val >= alert_threshold * 1000
    THEN PyRound(val, 1)
    ELSE NoneVal

\* Thresholding of a CPU or GPU reading (main, lines 416-424): the RAW value
\* is compared with the threshold, the rounded value is reported.
FinalUsage(val, alert_threshold) ==
    IF val # NoneVal /\ val > alert_threshold * 1000
    THEN PyRound(val, 1)
    ELSE NoneVal

\* ------------------------------------------------------------ the network
\* What one POST can end in: a status of the collector or a transport error.
Responses == {"200", "500", "ConnectionError"}

\* Mutant: any answer of the collector counts as a success.
send_data_to_server_unchecked(response) ==
    IF ~requests_available THEN FALSE ELSE response # "ConnectionError"

\* send_data_to_server: TRUE iff the POST was answered with a success status;
\* every exception of requests.post / raise_for_status is caught.
send_data_to_server(response) ==
    IF ~requests_available THEN FALSE ELSE response = "200"

\* The POSTs send_data_to_server issues for one call: none without requests.
PostsOf(body, response) ==
    IF ~requests_available THEN <<>>
    ELSE <<[kind |-> "post", tick |-> tick, body |-> body,
            delivered |-> (response = "200")]>>

\* log_data_to_file: one append to the file at path; an IOError is caught.
log_data_to_file(path, line, appended) ==
    <<[kind |-> "append", tick |-> tick, path |-> path, line |-> line,
       ok |-> appended]>>

\* open(log_path, 'a') creates the file the first time it succeeds; an append
\* that fails is taken to have failed at open.
FilesAfterAppend(t, appended) ==
    IF appended THEN log_files \cup {LogFileName(t)} ELSE log_files

SleepEvent(secs) == <<[kind |-> "sleep", tick |-> tick, secs |-> secs]>>

Cost(b) == IF b THEN 1 ELSE 0
\* Mutant: records are sent whether or not a server address is configured.
SendEnabledWithoutAddress == requests_available

SendEnabled == app_config.server_address # NoAddress /\ requests_available

\* ------------------------------------------------------- main(): startup
\* config.ini: whether it exists, whether parser.read raises on it (a line
\* outside any section, a duplicate option), and the options of the sections
\* it has, each with the string written for it.
ConfigIni(exists, parse_error, sections) ==
    [exists |-> exists, parse_error |-> parse_error, sections |-> sections]
NoSections == [x \in {} |-> <<>>]
NoOptions == [x \in {} |-> ""]

has_option(f, section, option) ==
    section \in DOMAIN f.sections /\ option \in DOMAIN f.sections[section]

\* int(): the strings that are integers, and their values.
IntRange == -1 .. 100
IsInt(v) == \E n \in IntRange : ToString(n) = v
IntOf(v) == CHOOSE n \in IntRange : ToString(n) = v

\* parser.get(section, option, fallback=...)
get(f, section, option, fallback) ==
    IF has_option(f, section, option) THEN f.sections[section][option]
    ELSE fallback
\* parser.getint(section, option, fallback=...), where it does not raise.
getint(f, section, option, fallback) ==
    IF has_option(f, section, option) THEN IntOf(f.sections[section][option])
    ELSE fallback
\* parser.getint raises ValueError: the option is there and is no integer.
getint_raises(f, option) ==
    has_option(f, "agent_settings", option)
        /\ ~IsInt(f.sections["agent_settings"][option])

IntOptions ==
    {"cpu_alert_threshold", "gpu_alert_threshold",
     "disk_space_alert_threshold_gb", "ping_interval_seconds",
     "log_retention_days"}

\* Lines 183-199 where nothing raises.
ReadConfig(f) ==
    [server_address |-> get(f, "server", "address", ConfigDefaults.server_address),
     cpu_alert_threshold |->
         getint(f, "agent_settings", "cpu_alert_threshold",
                ConfigDefaults.cpu_alert_threshold),
     gpu_alert_threshold |->
         getint(f, "agent_settings", "gpu_alert_threshold",
                ConfigDefaults.gpu_alert_threshold),
     log_folder |-> get(f, "agent_settings", "log_folder",
                        ConfigDefaults.log_folder),
     disk_space_alert_threshold_gb |->
         getint(f, "agent_settings", "disk_space_alert_threshold_gb",
                ConfigDefaults.disk_space_alert_threshold_gb),
     ping_interval_seconds |->
         getint(f, "agent_settings", "ping_interval_seconds",
                ConfigDefaults.ping_interval_seconds),
     log_retention_days |->
         getint(f, "agent_settings", "log_retention_days",
                ConfigDefaults.log_retention_days)]

\* Mutant: after an error the server address already read is kept.
load_app_config_keeps_address(f) ==
    IF ~f.exists THEN ConfigDefaults
    ELSE IF f.parse_error THEN ConfigDefaults
    ELSE IF \E option \in IntOptions : getint_raises(f, option)
    THEN [ConfigDefaults EXCEPT !.server_address =
              get(f, "server", "address", ConfigDefaults.server_address)]
    ELSE ReadConfig(f)

\* load_app_config (lines 157-204).
load_app_config(f) ==
    IF ~f.exists THEN ConfigDefaults
    ELSE IF f.parse_error THEN ConfigDefaults
    ELSE IF \E option \in IntOptions : getint_raises(f, option)
    THEN ConfigDefaults
    ELSE ReadConfig(f)

\* A config.ini that spells out a configuration: every option written.
ConfigFileOf(cfg) ==
    ConfigIni(TRUE, FALSE,
        [server |-> [address |-> cfg.server_address],
         agent_settings |->
             [cpu_alert_threshold |-> ToString(cfg.cpu_alert_threshold),
              gpu_alert_threshold |-> ToString(cfg.gpu_alert_threshold),
              log_folder |-> cfg.log_folder,
              disk_space_alert_threshold_gb |->
                  ToString(cfg.disk_space_alert_threshold_gb),
              ping_interval_seconds |-> ToString(cfg.ping_interval_seconds),
              log_retention_days |-> ToString(cfg.log_retention_days)]])

\* Line 261: main() loads its configuration, first of all.
LoadConfig ==
    /\ pc = "config"
    /\ app_config' = load_app_config(config_ini)
    /\ pc' = "startup"
    /\ UNCHANGED <<config_ini, requests_available, host, tick, tick_limit,
                   faults, now, last_ping_time, current_time, machine_payload,
                   application_payload, json_machine_data_for_log,
                   json_app_data_for_log, readings, events, signalled,
                   log_files>>

\* The days a file of the log folder may be dated, and the six-character
\* strings a name may begin with: the yymmdd of a day as DayStr writes it,
\* six digits that are no date, and six characters that are no digits.
FileDays == 0 .. 21
SixChars ==
    {DayStr(d * SecondsPerDay) : d \in FileDays} \cup {"991332", "backup"}

\* filename.endswith("Log_Usage_Windows.log") and len(filename) == 6 + len(...)
MatchesLogName(filename) == \E p \in SixChars : filename = p \o LogSuffix
\* filename[:6]
DateStr(filename) == CHOOSE p \in SixChars : filename = p \o LogSuffix

\* datetime.strptime(date_str, "%y%m%d").date(): the day, or ValueError.
ValueError == NoneVal
strptime(date_str) ==
    IF \E d \in FileDays : DayStr(d * SecondsPerDay) = date_str
    THEN CHOOSE d \in FileDays : DayStr(d * SecondsPerDay) = date_str
    ELSE ValueError

\* Mutant: a file exactly retention_days old is deleted too.
IsExpiredInclusive(age_in_days, retention_days) == age_in_days >= retention_days

\* Line 137.
IsExpired(age_in_days, retention_days) == age_in_days > retention_days

\* Mutant: a negative retention_days is not turned away.
cleanup_old_logs_unguarded(listing, today, retention_days, fault, locked) ==
    IF fault # "none" THEN listing
    ELSE listing \ {filename \in listing :
                      /\ MatchesLogName(filename)
                      /\ strptime(DateStr(filename)) # ValueError
                      /\ IsExpired(today - strptime(DateStr(filename)),
                                   retention_days)
                      /\ filename \notin locked}

\* cleanup_old_logs (lines 114-154): what is left of the folder's listing.
\* fault: "no_folder" (isdir is false) or "listdir" (os.listdir raises, caught
\* by the outer handler), both before anything is removed; locked: the files
\* os.remove raises OSError for.
cleanup_old_logs(listing, today, retention_days, fault, locked) ==
    IF retention_days < 0 THEN listing
    ELSE IF fault # "none" THEN listing
    ELSE listing \ {filename \in listing :
                      /\ MatchesLogName(filename)
                      /\ strptime(DateStr(filename)) # ValueError
                      /\ IsExpired(today - strptime(DateStr(filename)),
                                   retention_days)
                      /\ filename \notin locked}

CleanupEvent(before, today, retention_days, fault, locked, after) ==
    <<[kind |-> "cleanup", tick |-> 0, before |-> before, today |-> today,
       retention_days |-> retention_days, fault |-> fault, locked |-> locked,
       after |-> after]>>

\* Lines 274-277: the one call of cleanup_old_logs, before the loop.  With a
\* negative retention_days the file system is not touched, so nothing fails.
Cleanup(fault, locked) ==
    /\ pc = "startup"
    /\ fault \in {"none", "no_folder", "listdir"}
    /\ fault = "no_folder" => log_files = {}
    /\ app_config.log_retention_days < 0 => fault = "none" /\ locked = {}
    /\ fault # "none" => locked = {}
    /\ faults + Cost(fault = "listdir") + Cost(locked # {}) <= MaxFaults
    /\ faults' = faults + Cost(fault = "listdir") + Cost(locked # {})
    /\ LET today == now \div SecondsPerDay
           after == cleanup_old_logs(log_files, today,
                        app_config.log_retention_days, fault, locked)
       IN  /\ log_files' = after
           /\ events' = events \o CleanupEvent(log_files, today,
                            app_config.log_retention_days, fault, locked, after)
    /\ pc' = "top"
    /\ UNCHANGED <<config_ini, app_config, requests_available, host, tick, tick_limit, now,
                   last_ping_time, current_time, machine_payload,
                   application_payload, json_machine_data_for_log,
                   json_app_data_for_log, readings, signalled>>

\* ---------------------------------------------------------- main(): loop
\* Mutant: the ping waits until more than the interval has gone by.
ShouldSendPingLate(last, now_for_ping, current_ping_interval_seconds) ==
    \/ last = NoneVal
    \/ now_for_ping - last > current_ping_interval_seconds

\* Lines 315-319: the first run, or the interval has gone by.
ShouldSendPing(last, now_for_ping, current_ping_interval_seconds) ==
    \/ last = NoneVal
    \/ now_for_ping - last >= current_ping_interval_seconds

\* Lines 309-372: the ping block, inside its own try/except.  sched_error is
\* an exception raised before should_send_ping is decided; the inner handler
\* swallows it and the tick goes on with the data collection.  dumps_error is
\* json.dumps(ping_payload) raising (lines 343, 351-354): nothing is posted.
\* appended is FALSE when the ping_status line does not reach the file
\* (lines 362-365 and log_data_to_file catch whatever fails).
PingTask(response, appended, sched_error, dumps_error) ==
    /\ pc = "top"
    /\ tick <= tick_limit
    /\ pc' = "collect"
    /\ LET now_for_ping == now
           should_send_ping ==
               ShouldSendPing(last_ping_time, now_for_ping,
                              app_config.ping_interval_seconds)
           ping_payload ==
               [log_type |-> "ping", timestamp |-> IsoFormat(now_for_ping),
                netbios_name |-> Hostname, ip_address |-> HostIp]
           sent == SendEnabled /\ ~dumps_error
           ok == sent /\ send_data_to_server(response)
           local_ping_status_log ==
               [event_type |-> "ping_status",
                timestamp |-> IsoFormat(now_for_ping),
                server_address |-> IF app_config.server_address # NoAddress
                                   THEN app_config.server_address ELSE "N/A",
                status |-> IF ok THEN "ok" ELSE "false"]
           current_log_path_for_ping ==
               LogPath(app_config.log_folder, now_for_ping)
       IN  IF sched_error
           THEN /\ response = "200" /\ appended /\ ~dumps_error
                /\ faults < MaxFaults
                /\ faults' = faults + 1
                /\ UNCHANGED <<last_ping_time, events, log_files>>
           ELSE IF ~should_send_ping
           THEN /\ response = "200" /\ appended /\ ~dumps_error
                /\ UNCHANGED <<last_ping_time, events, faults, log_files>>
           ELSE /\ (~sent => response = "200")
                /\ (dumps_error => SendEnabled)
                /\ faults + Cost(sent /\ response # "200") + Cost(~appended)
                       + Cost(dumps_error) <= MaxFaults
                /\ faults' = faults + Cost(sent /\ response # "200")
                                    + Cost(~appended) + Cost(dumps_error)
                /\ events' = events
                       \o (IF sent THEN PostsOf(DumpsPing(ping_payload), response)
                           ELSE <<>>)
                       \o log_data_to_file(current_log_path_for_ping,
                              DumpsPingStatus(local_ping_status_log), appended)
                /\ log_files' = FilesAfterAppend(now_for_ping, appended)
                /\ last_ping_time' = now_for_ping
    /\ UNCHANGED <<config_ini, app_config, requests_available, host, tick, tick_limit, now,
                   current_time, machine_payload, application_payload,
                   json_machine_data_for_log, json_app_data_for_log, readings,
                   signalled>>

\* Lines 375-443: timestamp, provider calls, thresholds, the two dictionaries.
\* error is an exception none of the inner handlers catches.
Collect(cpu_val, gpu_val, free_space_gb_val, error) ==
    /\ pc = "collect"
    /\ current_time' = now
    /\ IF error
       THEN /\ faults < MaxFaults
            /\ faults' = faults + 1
            /\ pc' = "except"
            /\ UNCHANGED <<readings, machine_payload, application_payload>>
       ELSE /\ readings' = [cpu_val |-> cpu_val, gpu_val |-> gpu_val,
                            free_space_gb_val |-> free_space_gb_val]
            /\ machine_payload' =
                 <<[log_type |-> "machine",
                    timestamp |-> IsoFormat(now),
                    netbios_name |-> Hostname,
                    ip_address |-> HostIp,
                    free_disk_space_gb |->
                        PayloadFreeDisk(free_space_gb_val,
                            app_config.disk_space_alert_threshold_gb),
                    cpu_usage_percent |->
                        FinalUsage(cpu_val, app_config.cpu_alert_threshold),
                    gpu_usage_percent |->
                        FinalUsage(gpu_val, app_config.gpu_alert_threshold),
                    os_name |-> "Windows", os_version |-> "10"]>>
            /\ application_payload' =
                 <<[log_type |-> "application",
                    timestamp |-> IsoFormat(now),
                    netbios_name |-> Hostname,
                    active_window_title |-> "Editor"]>>
            /\ pc' = "machine_log"
            /\ UNCHANGED faults
    /\ UNCHANGED <<log_files,
                   config_ini, app_config, requests_available, host, tick, tick_limit, now,
                   last_ping_time, json_machine_data_for_log,
                   json_app_data_for_log, events, signalled>>

\* Mutant: the local log is a fallback, written only when nothing is sent.
SerializeAndLogWhenNotSending(ser, appended, body, next_pc) ==
    /\ ser \in {"ok", "TypeError", "Error"}
    /\ faults + Cost(ser # "ok") + Cost(ser = "ok" /\ ~appended) <= MaxFaults
    /\ faults' = faults + Cost(ser # "ok") + Cost(ser = "ok" /\ ~appended)
    /\ (ser # "ok" => appended)
    /\ events' = IF ser = "ok" /\ ~SendEnabled
                 THEN events \o log_data_to_file(
                          LogPath(app_config.log_folder, current_time),
                          body, appended)
                 ELSE events
    /\ log_files' = FilesAfterAppend(current_time,
                                     ser = "ok" /\ appended /\ ~SendEnabled)
    /\ pc' = IF ser = "Error" THEN "except" ELSE next_pc

\* Mutant: an append that fails raises into the loop's handler.
SerializeAndLogRaises(ser, appended, body, next_pc) ==
    /\ ser \in {"ok", "TypeError", "Error"}
    /\ faults + Cost(ser # "ok") + Cost(ser = "ok" /\ ~appended) <= MaxFaults
    /\ faults' = faults + Cost(ser # "ok") + Cost(ser = "ok" /\ ~appended)
    /\ (ser # "ok" => appended)
    /\ events' = IF ser = "ok"
                 THEN events \o log_data_to_file(
                          LogPath(app_config.log_folder, current_time),
                          body, appended)
                 ELSE events
    /\ log_files' = FilesAfterAppend(current_time, ser = "ok" /\ appended)
    /\ pc' = IF ser = "Error" \/ ~appended THEN "except" ELSE next_pc

\* Lines 446-452 and 461-467: json.dumps, then the local append.  ser is what
\* json.dumps does: "ok", "TypeError" (caught: the record is dropped) or
\* "Error" (any other exception: it escapes to the loop's handler).
SerializeAndLog(ser, appended, body, next_pc) ==
    /\ ser \in {"ok", "TypeError", "Error"}
    /\ faults + Cost(ser # "ok") + Cost(ser = "ok" /\ ~appended) <= MaxFaults
    /\ faults' = faults + Cost(ser # "ok") + Cost(ser = "ok" /\ ~appended)
    /\ (ser # "ok" => appended)
    /\ events' = IF ser = "ok"
                 THEN events \o log_data_to_file(
                          LogPath(app_config.log_folder, current_time),
                          body, appended)
                 ELSE events
    /\ log_files' = FilesAfterAppend(current_time, ser = "ok" /\ appended)
    /\ pc' = IF ser = "Error" THEN "except" ELSE next_pc

MachineLog(ser, appended) ==
    /\ pc = "machine_log"
    /\ SerializeAndLog(ser, appended, DumpsMachine(machine_payload[1]),
                       "machine_send")
    /\ json_machine_data_for_log' =
           IF ser = "ok" THEN <<DumpsMachine(machine_payload[1])>> ELSE <<>>
    /\ UNCHANGED <<config_ini, app_config, requests_available, host, tick, tick_limit, now,
                   last_ping_time, current_time, machine_payload,
                   application_payload, json_app_data_for_log, readings,
                   signalled>>

AppLog(ser, appended) ==
    /\ pc = "app_log"
    /\ SerializeAndLog(ser, appended, DumpsApplication(application_payload[1]),
                       "app_send")
    /\ json_app_data_for_log' =
           IF ser = "ok" THEN <<DumpsApplication(application_payload[1])>>
           ELSE <<>>
    /\ UNCHANGED <<config_ini, app_config, requests_available, host, tick, tick_limit, now,
                   last_ping_time, current_time, machine_payload,
                   application_payload, json_machine_data_for_log, readings,
                   signalled>>

\* Mutant: a send that fails is tried a second time.
SendRecordRetries(json_data, response) ==
    LET sends == SendEnabled /\ json_data # <<>>
    IN  /\ (~sends => response = "200")
        /\ faults + Cost(sends /\ response # "200") <= MaxFaults
        /\ faults' = faults + Cost(sends /\ response # "200")
        /\ events' = IF sends /\ response # "200"
                     THEN events \o PostsOf(json_data[1], response)
                                 \o PostsOf(json_data[1], response)
                     ELSE IF sends
                     THEN events \o PostsOf(json_data[1], response)
                     ELSE events

\* Lines 454-458 and 469-473: the remote send of a serialized record.
SendRecord(json_data, response) ==
    LET sends == SendEnabled /\ json_data # <<>>
    IN  /\ (~sends => response = "200")
        /\ faults + Cost(sends /\ response # "200") <= MaxFaults
        /\ faults' = faults + Cost(sends /\ response # "200")
        /\ events' = IF sends THEN events \o PostsOf(json_data[1], response)
                     ELSE events

\* Mutant: a tick whose machine record was dropped skips the application
\* record too.
MachineSendSkipsSibling(response) ==
    /\ pc = "machine_send"
    /\ SendRecord(json_machine_data_for_log, response)
    /\ pc' = IF json_machine_data_for_log = <<>> THEN "sleep" ELSE "app_log"
    /\ UNCHANGED <<log_files,
                   config_ini, app_config, requests_available, host, tick, tick_limit, now,
                   last_ping_time, current_time, machine_payload,
                   application_payload, json_machine_data_for_log,
                   json_app_data_for_log, readings, signalled>>

MachineSend(response) ==
    /\ pc = "machine_send"
    /\ SendRecord(json_machine_data_for_log, response)
    /\ pc' = "app_log"
    /\ UNCHANGED <<log_files,
                   config_ini, app_config, requests_available, host, tick, tick_limit, now,
                   last_ping_time, current_time, machine_payload,
                   application_payload, json_machine_data_for_log,
                   json_app_data_for_log, readings, signalled>>

AppSend(response) ==
    /\ pc = "app_send"
    /\ SendRecord(json_app_data_for_log, response)
    /\ pc' = "sleep"
    /\ UNCHANGED <<log_files,
                   config_ini, app_config, requests_available, host, tick, tick_limit, now,
                   last_ping_time, current_time, machine_payload,
                   application_payload, json_machine_data_for_log,
                   json_app_data_for_log, readings, signalled>>

\* Mutant: the cleanup is run again at the end of every tick.
TickSleepCleans ==
    /\ pc = "sleep"
    /\ now' = now + 30
    /\ LET today == now \div SecondsPerDay
           after == cleanup_old_logs(log_files, today,
                        app_config.log_retention_days, "none", {})
       IN  /\ log_files' = after
           /\ events' = events \o CleanupEvent(log_files, today,
                            app_config.log_retention_days, "none", {}, after)
                               \o SleepEvent(30)
    /\ pc' = "top"
    /\ tick' = tick + 1
    /\ UNCHANGED <<config_ini, app_config, requests_available, host, tick_limit,
                   faults, last_ping_time, current_time, machine_payload,
                   application_payload, json_machine_data_for_log,
                   json_app_data_for_log, readings, signalled>>

\* Line 475: the inter-tick sleep of a tick that ran to its end.
TickSleep ==
    /\ pc = "sleep"
    /\ now' = now + 30
    /\ events' = events \o SleepEvent(30)
    /\ pc' = "top"
    /\ tick' = tick + 1
    /\ UNCHANGED <<log_files, config_ini, app_config, requests_available, host, tick_limit,
                   faults, last_ping_time, current_time, machine_payload,
                   application_payload, json_machine_data_for_log,
                   json_app_data_for_log, readings, signalled>>

\* Mutant: the loop's handler lets the exception end the process.
ErrorHandlerReraises ==
    /\ pc' = "terminated"
    /\ UNCHANGED <<log_files,
                   config_ini, app_config, requests_available, host, tick, tick_limit,
                   faults, now, last_ping_time, current_time, machine_payload,
                   application_payload, json_machine_data_for_log,
                   json_app_data_for_log, readings, events, signalled>>

\* Mutant: after its pause the handler falls into the sleep of line 475.
ErrorHandlerThenSleeps ==
    /\ now' = now + 90
    /\ events' = events \o SleepEvent(60) \o SleepEvent(30)
    /\ pc' = "top"
    /\ tick' = tick + 1
    /\ UNCHANGED <<log_files, config_ini, app_config, requests_available, host,
                   tick_limit, faults, last_ping_time, current_time,
                   machine_payload, application_payload,
                   json_machine_data_for_log, json_app_data_for_log, readings,
                   signalled>>

\* Lines 476-478: the loop's handler: report, pause, go round again.
ErrorHandler ==
    /\ now' = now + 60
    /\ events' = events \o SleepEvent(60)
    /\ pc' = "top"
    /\ tick' = tick + 1
    /\ UNCHANGED <<log_files, config_ini, app_config, requests_available, host, tick_limit,
                   faults, last_ping_time, current_time, machine_payload,
                   application_payload, json_machine_data_for_log,
                   json_app_data_for_log, readings, signalled>>

ErrorPause ==
    /\ pc = "except"
    /\ ErrorHandler

\* The process is ended from outside (KeyboardInterrupt, kill): the only exit,
\* since `except Exception` does not catch it.
Terminate ==
    /\ pc \notin {"terminated"}
    /\ signalled' = TRUE
    /\ pc' = "terminated"
    /\ UNCHANGED <<log_files,
                   config_ini, app_config, requests_available, host, tick, tick_limit,
                   faults, now, last_ping_time, current_time, machine_payload,
                   application_payload, json_machine_data_for_log,
                   json_app_data_for_log, readings, events>>

\* ============================================================== COLLECTOR
VARIABLES
    computers,               \* rows of table computers
    activity_logs,           \* rows of table activity_logs
    application_usage_logs,  \* rows of table application_usage_logs
    auto_increment,          \* next AUTO_INCREMENT id of each table
    served,                  \* history: number of requests, the last one with
                             \* its status code, the accepted ones in order
    db_faults,               \* database failures injected so far
    render,                  \* what the last dashboard_page call rendered
    computer_groups,         \* rows of table computer_groups
    in_flight,               \* per worker: <<>> or the request it is serving,
                             \* with the store its lookup read
    group_api,               \* history: number of requests to the group API,
                             \* the last one with its answer
    db_calls                 \* history: the route of the last request, its
                             \* status, and the calls it made on the database
                             \* connection and its cursor, in order

serverVars == <<computers, activity_logs, application_usage_logs,
                auto_increment, served, db_faults, render, computer_groups,
                in_flight, group_api, db_calls>>

vars == <<agentVars, serverVars>>

\* Database failures injected in one behaviour.
MaxDbFaults == 1

\* The requests the collector serves at the same time, one per worker.
Workers == {"w1", "w2"}

\* Python None where a string is expected (SQL NULL in a string column).
NoneStr == "<None>"

\* --------------------------------------------------- parsing JSON tokens
\* Instants that occur in the model: what the agent can stamp a record with
\* and what other clients send.
AgentTimes ==
    { s + 30 * a + 60 * b : s \in StartTimes,
                            a \in 0..(MaxTicks + 1), b \in 0..(MaxTicks + 1) }
ClientTimes == {0, 60, 120}
TimeDomain == AgentTimes \cup ClientTimes

Strings ==
    {"machine", "application", "ping", "update", "PC1", "PC2", "PC3", "", " ",
     "10.0.0.5", "10.0.0.6", "Windows", "10", "Editor", "yesterday",
     "Lab", "Lab ", "Office", "2", "two"}
    \cup {IsoFormat(t) : t \in TimeDomain}

Numbers ==
    {PyRound(r.cpu_val, 1) :
        r \in {x \in WideHost \cup WatchedHost : x.cpu_val # NoneVal}}
    \cup {PyRound(r.gpu_val, 1) : r \in {x \in WideHost : x.gpu_val # NoneVal}}
    \cup {PyRound(r.free_space_gb_val, 2) :
             r \in {x \in WideHost : x.free_space_gb_val # NoneVal}}
    \cup {90040, 50000, 1500}

\* json.loads on one token, as tables over the values of the model.
StrTokens == {JStr(x) : x \in Strings}
StrOfToken == [tok \in StrTokens |-> CHOOSE x \in Strings : JStr(x) = tok]
NumTokens == {FloatRepr(n) : n \in Numbers}
NumOfToken == [tok \in NumTokens |-> CHOOSE n \in Numbers : FloatRepr(n) = tok]
IsStrToken(tok) == tok \in StrTokens
UnStr(tok) == StrOfToken[tok]
IsNumToken(tok) == tok \in NumTokens
UnNum(tok) == NumOfToken[tok]

\* dict.get(key): the value, None (null) when the key is absent.
Get(data, key) == IF key \in DOMAIN data THEN data[key] ELSE JNull
\* Python truth of a parsed JSON value.
Truthy(tok) == tok \notin {JNull, JStr(""), "0", "0.0", "false"}
\* str(value)
PyStr(tok) ==
    IF IsStrToken(tok) THEN UnStr(tok)
    ELSE IF tok = JNull THEN "None" ELSE tok
\* str.strip() on the strings of the model.
Strip(x) == IF x = " " THEN "" ELSE IF x = "Lab " THEN "Lab" ELSE x
\* A column value from a parsed JSON value.
StrOrNone(tok) == IF IsStrToken(tok) THEN UnStr(tok) ELSE NoneStr
NumOrNone(tok) == IF IsNumToken(tok) THEN UnNum(tok) ELSE NoneVal

\* datetime.fromisoformat accepts exactly the strings isoformat produces.
IsoStrings == {IsoFormat(t) : t \in TimeDomain}
InstantOfIso == [x \in IsoStrings |-> CHOOSE t \in TimeDomain : IsoFormat(t) = x]
IsIso(x) == x \in IsoStrings
fromisoformat(x) == InstantOfIso[x]

\* ------------------------------------------------------------------- SQL
\* The store as one value: what a transaction reads and writes.
Store ==
    [computers |-> computers, activity_logs |-> activity_logs,
     application_usage_logs |-> application_usage_logs,
     auto_increment |-> auto_increment]

\* "SELECT id FROM computers WHERE netbios_name = %s", then fetchone():
\* <<>> (None) or <<id>>; netbios_name is UNIQUE.
SELECT_COMPUTER_BY_NETBIOS(db, netbios_name) ==
    IF \E c \in db.computers : c.netbios_name = netbios_name
    THEN <<(CHOOSE c \in db.computers : c.netbios_name = netbios_name).id>>
    ELSE <<>>

\* Mutant: netbios_name is not declared UNIQUE.
DuplicateKeyUnchecked(db, netbios_name) == FALSE

\* netbios_name VARCHAR(255) UNIQUE NOT NULL: an INSERT of a name that is
\* already there raises mariadb.Error (1062).
DuplicateKey(db, netbios_name) ==
    \E c \in db.computers : c.netbios_name = netbios_name

\* INSERT INTO computers (netbios_name, ip_address, last_seen, os_name,
\* os_version): a new row with the next AUTO_INCREMENT id and no group.
INSERT_NEW_COMPUTER(db, netbios_name, ip_address, last_seen, os_name, os_version) ==
    [db EXCEPT
       !.computers = @ \cup
           {[id |-> db.auto_increment.computers, netbios_name |-> netbios_name,
             ip_address |-> ip_address, last_seen |-> last_seen,
             group_id |-> NoneVal, os_name |-> os_name,
             os_version |-> os_version]},
       !.auto_increment.computers = @ + 1]

\* UPDATE computers SET ip_address, last_seen, os_name, os_version WHERE id
UPDATE_COMPUTER_LAST_SEEN_IP(db, ip_address, last_seen, os_name, os_version, id) ==
    [db EXCEPT !.computers =
        { IF c.id = id
          THEN [c EXCEPT !.ip_address = ip_address, !.last_seen = last_seen,
                         !.os_name = os_name, !.os_version = os_version]
          ELSE c : c \in @ }]

\* UPDATE computers SET ip_address, last_seen WHERE id
UPDATE_COMPUTER_PING_INFO(db, ip_address, last_seen, id) ==
    [db EXCEPT !.computers =
        { IF c.id = id
          THEN [c EXCEPT !.ip_address = ip_address, !.last_seen = last_seen]
          ELSE c : c \in @ }]

\* INSERT INTO activity_logs (computer_id, timestamp, free_disk_space_gb,
\* cpu_usage_percent, gpu_usage_percent)
INSERT_ACTIVITY_LOG(db, computer_id, timestamp, free_disk_space_gb, cpu_usage_percent, gpu_usage_percent) ==
    [db EXCEPT
       !.activity_logs = @ \cup
           {[id |-> db.auto_increment.activity_logs,
             computer_id |-> computer_id, timestamp |-> timestamp,
             free_disk_space_gb |-> free_disk_space_gb,
             cpu_usage_percent |-> cpu_usage_percent,
             gpu_usage_percent |-> gpu_usage_percent]},
       !.auto_increment.activity_logs = @ + 1]

\* INSERT INTO application_usage_logs (computer_id, timestamp,
\* active_window_title)
INSERT_APPLICATION_LOG(db, computer_id, timestamp, active_window_title) ==
    [db EXCEPT
       !.application_usage_logs = @ \cup
           {[id |-> db.auto_increment.application_usage_logs,
             computer_id |-> computer_id, timestamp |-> timestamp,
             active_window_title |-> active_window_title]},
       !.auto_increment.application_usage_logs = @ + 1]

\* ---------------------------------------------------- POST /log_activity
\* A response: the status code and the store left behind.  commit makes the
\* transaction's store visible; rollback (or closing without commit) leaves
\* the store as it was, except that InnoDB does not give back the
\* AUTO_INCREMENT values the transaction used.
Committed(tx) == [status |-> 200, db |-> tx]
\* Mutant: a request that fails leaves what its transaction wrote.
RolledBackKeepsWrites(status, db, tx) == [status |-> status, db |-> tx]

RolledBack(status, db, tx) ==
    [status |-> status, db |-> [db EXCEPT !.auto_increment = tx.auto_increment]]

\* Mutant: a computer seen for the first time is stored without last_seen.
UpsertComputerUnstamped(db, result, netbios_name, ip_address, parsed_timestamp, os_name, os_version) ==
    IF result # <<>>
    THEN UPDATE_COMPUTER_LAST_SEEN_IP(db, ip_address, parsed_timestamp,
                                      os_name, os_version, result[1])
    ELSE INSERT_NEW_COMPUTER(db, netbios_name, ip_address, NoneVal,
                             os_name, os_version)

\* Mutant: a stored last_seen is only ever moved forward.
UpsertComputerKeepsLater(db, result, netbios_name, ip_address, parsed_timestamp, os_name, os_version) ==
    IF result # <<>>
    THEN LET stored == (CHOOSE c \in db.computers : c.id = result[1]).last_seen
         IN  UPDATE_COMPUTER_LAST_SEEN_IP(db, ip_address,
                 IF stored > parsed_timestamp THEN stored ELSE parsed_timestamp,
                 os_name, os_version, result[1])
    ELSE INSERT_NEW_COMPUTER(db, netbios_name, ip_address, parsed_timestamp,
                             os_name, os_version)

\* Lines 250-255: the computer is updated when the lookup found it and
\* inserted otherwise; the transaction's store afterwards.
UpsertComputer(db, result, netbios_name, ip_address, parsed_timestamp, os_name, os_version) ==
    IF result # <<>>
    THEN UPDATE_COMPUTER_LAST_SEEN_IP(db, ip_address, parsed_timestamp,
                                      os_name, os_version, result[1])
    ELSE INSERT_NEW_COMPUTER(db, netbios_name, ip_address, parsed_timestamp,
                             os_name, os_version)

\* Lines 251 and 255: result[0], or cursor.lastrowid after the insert.
ComputerId(db, result) ==
    IF result # <<>> THEN result[1] ELSE db.auto_increment.computers

\* Mutant: only the newest sample of a computer is kept.
InsertSampleReplaces(tx, computer_id, parsed_timestamp, data) ==
    INSERT_ACTIVITY_LOG(
        [tx EXCEPT !.activity_logs =
            {l \in @ : l.computer_id # computer_id}],
        computer_id, parsed_timestamp,
        NumOrNone(Get(data, "free_disk_space_gb")),
        NumOrNone(Get(data, "cpu_usage_percent")),
        NumOrNone(Get(data, "gpu_usage_percent")))

\* Mutant: a computer that has a sample already gets no second one.
InsertSampleOncePerComputer(tx, computer_id, parsed_timestamp, data) ==
    IF \E l \in tx.activity_logs : l.computer_id = computer_id
    THEN tx
    ELSE INSERT_ACTIVITY_LOG(tx, computer_id, parsed_timestamp,
             NumOrNone(Get(data, "free_disk_space_gb")),
             NumOrNone(Get(data, "cpu_usage_percent")),
             NumOrNone(Get(data, "gpu_usage_percent")))

\* Lines 264-271: the sample of the record, with whatever the three optional
\* fields hold.
InsertSample(tx, computer_id, parsed_timestamp, data) ==
    INSERT_ACTIVITY_LOG(tx, computer_id, parsed_timestamp,
        NumOrNone(Get(data, "free_disk_space_gb")),
        NumOrNone(Get(data, "cpu_usage_percent")),
        NumOrNone(Get(data, "gpu_usage_percent")))

\* Lines 242-272.  fault = "execute": the sample insert raises mariadb.Error.
MachineBranch(data, db, result, netbios_name, parsed_timestamp, fault) ==
    LET ip_token == Get(data, "ip_address")
    IN  IF ~Truthy(ip_token) \/ Strip(PyStr(ip_token)) = ""
        THEN RolledBack(400, db, db)
        ELSE
        LET ip_address == Strip(PyStr(ip_token))
            os_name    == StrOrNone(Get(data, "os_name"))
            os_version == StrOrNone(Get(data, "os_version"))
            upserted   == UpsertComputer(db, result, netbios_name, ip_address,
                              parsed_timestamp, os_name, os_version)
            computer_id == ComputerId(db, result)
        IN  IF result = <<>> /\ DuplicateKey(db, netbios_name)
            THEN RolledBack(500, db, db)
            ELSE IF fault = "execute"
            THEN RolledBack(500, db, upserted)
            ELSE Committed(InsertSample(upserted, computer_id,
                                        parsed_timestamp, data))

\* Mutant: an application record counts as a sign of life of its computer.
ApplicationBranchMarksSeen(data, db, result, netbios_name, parsed_timestamp, fault) ==
    IF result = <<>>
    THEN RolledBack(404, db, db)
    ELSE
    LET computer_id == result[1]
        stored == CHOOSE c \in db.computers : c.id = computer_id
        active_window_title ==
            IF "active_window_title" \in DOMAIN data
            THEN StrOrNone(data.active_window_title) ELSE ""
    IN  IF fault = "execute"
        THEN RolledBack(500, db, db)
        ELSE Committed(INSERT_APPLICATION_LOG(
                 UPDATE_COMPUTER_PING_INFO(db, stored.ip_address,
                                           parsed_timestamp, computer_id),
                 computer_id, parsed_timestamp, active_window_title))

\* Mutant: an application record creates the computer it does not find.
ApplicationBranchCreatesComputer(data, db, result, netbios_name, parsed_timestamp, fault) ==
    LET tx == IF result = <<>>
              THEN INSERT_NEW_COMPUTER(db, netbios_name, NoneStr,
                                       parsed_timestamp, NoneStr, NoneStr)
              ELSE db
        computer_id == ComputerId(db, result)
        active_window_title ==
            IF "active_window_title" \in DOMAIN data
            THEN StrOrNone(data.active_window_title) ELSE ""
    IN  IF fault = "execute"
        THEN RolledBack(500, db, tx)
        ELSE Committed(INSERT_APPLICATION_LOG(tx, computer_id,
                 parsed_timestamp, active_window_title))

\* Lines 274-299.
ApplicationBranch(data, db, result, netbios_name, parsed_timestamp, fault) ==
    IF result = <<>>
    THEN RolledBack(404, db, db)
    ELSE
    LET computer_id == result[1]
        active_window_title ==
            IF "active_window_title" \in DOMAIN data
            THEN StrOrNone(data.active_window_title) ELSE ""
    IN  IF fault = "execute"
        THEN RolledBack(500, db, db)
        ELSE Committed(INSERT_APPLICATION_LOG(db, computer_id,
                 parsed_timestamp, active_window_title))

\* Mutant: a ping of an unknown computer is acknowledged and not stored.
PingBranchAcknowledges(data, db, result, netbios_name, parsed_timestamp, fault) ==
    LET ip_token == Get(data, "ip_address")
    IN  IF ~Truthy(ip_token) \/ Strip(PyStr(ip_token)) = ""
        THEN RolledBack(400, db, db)
        ELSE
        LET ip_address == Strip(PyStr(ip_token))
        IN  IF fault = "execute"
            THEN RolledBack(500, db, db)
            ELSE IF result = <<>>
            THEN Committed(db)
            ELSE Committed(UPDATE_COMPUTER_PING_INFO(db, ip_address,
                     parsed_timestamp, result[1]))

\* Mutant: a ping updates a known computer as a machine record without
\* os_name and os_version does.
PingBranchClearsOs(data, db, result, netbios_name, parsed_timestamp, fault) ==
    LET ip_token == Get(data, "ip_address")
    IN  IF ~Truthy(ip_token) \/ Strip(PyStr(ip_token)) = ""
        THEN RolledBack(400, db, db)
        ELSE
        LET ip_address == Strip(PyStr(ip_token))
        IN  IF fault = "execute" \/ (result = <<>> /\ DuplicateKey(db, netbios_name))
            THEN RolledBack(500, db, db)
            ELSE Committed(UpsertComputer(db, result, netbios_name, ip_address,
                     parsed_timestamp, NoneStr, NoneStr))

\* Mutant: a ping of an unknown computer is turned away like an application
\* record.
PingBranchRequiresComputer(data, db, result, netbios_name, parsed_timestamp, fault) ==
    LET ip_token == Get(data, "ip_address")
    IN  IF ~Truthy(ip_token) \/ Strip(PyStr(ip_token)) = ""
        THEN RolledBack(400, db, db)
        ELSE
        LET ip_address == Strip(PyStr(ip_token))
        IN  IF result = <<>>
            THEN RolledBack(404, db, db)
            ELSE IF fault = "execute"
            THEN RolledBack(500, db, db)
            ELSE Committed(UPDATE_COMPUTER_PING_INFO(db, ip_address,
                     parsed_timestamp, result[1]))

\* Lines 301-323.  (In the file this branch is indented one level too little;
\* it is read as the third alternative of the if/elif chain that its body,
\* the final else and the commit after it belong to.)
PingBranch(data, db, result, netbios_name, parsed_timestamp, fault) ==
    LET ip_token == Get(data, "ip_address")
    IN  IF ~Truthy(ip_token) \/ Strip(PyStr(ip_token)) = ""
        THEN RolledBack(400, db, db)
        ELSE
        LET ip_address == Strip(PyStr(ip_token))
        IN  IF fault = "execute" \/ (result = <<>> /\ DuplicateKey(db, netbios_name))
            THEN RolledBack(500, db, db)
            ELSE IF result = <<>>
            THEN Committed(INSERT_NEW_COMPUTER(db, netbios_name, ip_address,
                     parsed_timestamp, NoneStr, NoneStr))
            ELSE Committed(UPDATE_COMPUTER_PING_INFO(db, ip_address,
                     parsed_timestamp, result[1]))

\* Mutant: the connection is opened before the body is looked at.
log_activity_connects_first(data, db, fault) ==
    LET log_type      == Get(data, "log_type")
        raw_timestamp == Get(data, "timestamp")
    IN  IF fault = "connect" THEN RolledBack(500, db, db)
        ELSE IF DOMAIN data = {} THEN RolledBack(400, db, db)
        ELSE IF ~Truthy(log_type) THEN RolledBack(400, db, db)
        ELSE IF ~Truthy(raw_timestamp) THEN RolledBack(400, db, db)
        ELSE IF ~(IsStrToken(raw_timestamp) /\ IsIso(UnStr(raw_timestamp)))
             THEN RolledBack(400, db, db)
        ELSE IF "netbios_name" \notin DOMAIN data
                \/ Strip(PyStr(data.netbios_name)) = ""
             THEN RolledBack(400, db, db)
        ELSE
        LET parsed_timestamp == fromisoformat(UnStr(raw_timestamp))
            netbios_name     == Strip(PyStr(data.netbios_name))
            result == SELECT_COMPUTER_BY_NETBIOS(db, netbios_name)
        IN  IF log_type = JStr("machine")
            THEN MachineBranch(data, db, result, netbios_name,
                               parsed_timestamp, fault)
            ELSE IF log_type = JStr("application")
            THEN ApplicationBranch(data, db, result, netbios_name,
                                   parsed_timestamp, fault)
            ELSE IF log_type = JStr("ping")
            THEN PingBranch(data, db, result, netbios_name,
                            parsed_timestamp, fault)
            ELSE RolledBack(400, db, db)

\* Lines 200-354: the whole handler.  fault is "none", "connect"
\* (get_db_connection returns None) or "execute".  seen is the store the
\* lookup of line 239 read, db the store the statements after it are applied
\* to: the same, unless another transaction committed in between.
log_activity_tx(data, seen, db, fault) ==
    LET log_type      == Get(data, "log_type")
        raw_timestamp == Get(data, "timestamp")
    IN  IF DOMAIN data = {} THEN RolledBack(400, db, db)
        ELSE IF ~Truthy(log_type) THEN RolledBack(400, db, db)
        ELSE IF ~Truthy(raw_timestamp) THEN RolledBack(400, db, db)
        ELSE IF ~(IsStrToken(raw_timestamp) /\ IsIso(UnStr(raw_timestamp)))
             THEN RolledBack(400, db, db)
        ELSE IF "netbios_name" \notin DOMAIN data
                \/ Strip(PyStr(data.netbios_name)) = ""
             THEN RolledBack(400, db, db)
        ELSE
        LET parsed_timestamp == fromisoformat(UnStr(raw_timestamp))
            netbios_name     == Strip(PyStr(data.netbios_name))
        IN  IF fault = "connect" THEN RolledBack(500, db, db)
            ELSE
            LET result == SELECT_COMPUTER_BY_NETBIOS(seen, netbios_name)
            IN  IF log_type = JStr("machine")
                THEN MachineBranch(data, db, result, netbios_name,
                                   parsed_timestamp, fault)
                ELSE IF log_type = JStr("application")
                THEN ApplicationBranch(data, db, result, netbios_name,
                                       parsed_timestamp, fault)
                ELSE IF log_type = JStr("ping")
                THEN PingBranch(data, db, result, netbios_name,
                                parsed_timestamp, fault)
                ELSE RolledBack(400, db, db)

\* The handler with no other transaction beside it.
log_activity(data, db, fault) == log_activity_tx(data, db, db, fault)

\* ------------------------------------------------------------ GET / (alerts)
CPU_ALERT_THRESHOLD == 90000
GPU_ALERT_THRESHOLD == 90000
OFFLINE_THRESHOLD_MINUTES == 30

\* strftime('%Y-%m-%d %H:%M:%S')
strftime(t) == ToString(t \div SecondsPerDay) \o " " \o ToString(t % SecondsPerDay)

\* ORDER BY c.last_seen DESC, c.netbios_name (NULL sorts last under DESC).
NameRank(x) ==
    CASE x = "None" -> 0 [] x = "PC1" -> 1 [] x = "PC2" -> 2 [] OTHER -> 3
RowBefore(a, b) ==
    \/ a.last_seen > b.last_seen
    \/ a.last_seen = b.last_seen /\ NameRank(a.netbios_name) <= NameRank(b.netbios_name)

RECURSIVE SELECT_COMPUTERS_FOR_DASHBOARD(_)
SELECT_COMPUTERS_FOR_DASHBOARD(rows) ==
    IF rows = {} THEN <<>>
    ELSE LET first == CHOOSE r \in rows : \A q \in rows : RowBefore(r, q)
         IN  <<first>> \o SELECT_COMPUTERS_FOR_DASHBOARD(rows \ {first})

\* The rows "the single most recent MachineSample" of a computer can be:
\* ORDER BY timestamp DESC LIMIT 1; rows with equal timestamps are not ordered.
SELECT_LATEST_ACTIVITY_FOR_COMPUTER(db, computer_id) ==
    LET mine == {l \in db.activity_logs : l.computer_id = computer_id}
    IN  {l \in mine : \A m \in mine : m.timestamp <= l.timestamp}

\* Mutant: a computer last seen exactly 30 minutes ago counts as offline.
IsOfflineInclusive(last_seen, at) == at - last_seen >= OFFLINE_THRESHOLD_MINUTES * 60

\* Line 149: now - last_seen_dt > timedelta(minutes=OFFLINE_THRESHOLD_MINUTES)
IsOffline(last_seen, at) == at - last_seen > OFFLINE_THRESHOLD_MINUTES * 60

\* Mutant: a value equal to the constant raises the alert.
ExceedsThresholdInclusive(usage, threshold) == usage # NoneVal /\ usage >= threshold

\* Lines 167 and 172: the value is not None and exceeds the constant.
ExceedsThreshold(usage, threshold) == usage # NoneVal /\ usage > threshold

\* Lines 139-176 for one row of the computers query; latest_log is <<>> (None)
\* or <<row>>, what fetchone() returned for the latest-activity query.
AlertsOfRow(row, latest_log, at) ==
    LET alert(type, details) ==
            <<[netbios_name |-> row.netbios_name, ip_address |-> row.ip_address,
               alert_type |-> type, details |-> details]>>
        offline ==
            IF row.last_seen # NoneVal
            THEN IF IsOffline(row.last_seen, at)
                 THEN alert("Offline", "Last seen: " \o strftime(row.last_seen))
                 ELSE <<>>
            ELSE alert("Offline", "Never seen (no activity logs yet)")
        usage ==
            IF latest_log = <<>> THEN <<>>
            ELSE LET cpu_usage == latest_log[1].cpu_usage_percent
                     gpu_usage == latest_log[1].gpu_usage_percent
                     log_timestamp == strftime(latest_log[1].timestamp)
                 IN  (IF ExceedsThreshold(cpu_usage, CPU_ALERT_THRESHOLD)
                      THEN alert("High CPU Usage",
                               "CPU at " \o Format1f(cpu_usage) \o "% on "
                                   \o log_timestamp)
                      ELSE <<>>)
                  \o (IF ExceedsThreshold(gpu_usage, GPU_ALERT_THRESHOLD)
                      THEN alert("High GPU Usage",
                               "GPU at " \o Format1f(gpu_usage) \o "% on "
                                   \o log_timestamp)
                      ELSE <<>>)
    IN  offline \o usage

RECURSIVE AlertsOfRows(_, _, _)
AlertsOfRows(rows, latest, at) ==
    IF rows = <<>> THEN <<>>
    ELSE AlertsOfRow(Head(rows), latest[Head(rows).id], at)
         \o AlertsOfRows(Tail(rows), latest, at)

\* What the latest-activity queries of one render can return: for each
\* computer, None or one of its most recent rows.
LatestChoices(db) ==
    LET ids == {c.id : c \in db.computers}
        opts(i) ==
            IF SELECT_LATEST_ACTIVITY_FOR_COMPUTER(db, i) = {} THEN {<<>>}
            ELSE {<<l>> : l \in SELECT_LATEST_ACTIVITY_FOR_COMPUTER(db, i)}
    IN  {f \in [ids -> UNION {opts(i) : i \in ids}] : \A i \in ids : f[i] \in opts(i)}

\* Lines 124-191 with a working connection.
dashboard_page(db, latest, at) ==
    [rendered |-> TRUE, now |-> at, latest |-> latest,
     alerts |-> AlertsOfRows(SELECT_COMPUTERS_FOR_DASHBOARD(db.computers),
                             latest, at),
     error_message |-> NoneStr]

\* Mutant: a failure of the store goes unreported.
dashboard_page_fails_silently(db, latest, at, fault, failed_query) ==
    [rendered |-> TRUE, now |-> at, latest |-> latest, alerts |-> <<>>,
     error_message |-> NoneStr]

\* Lines 124-191 when the store fails.  fault = "connect": get_db_connection
\* returns None (line 177).  fault = "execute": query number failed_query
\* raises mariadb.Error (line 181): 0 is the query for the computers, i the
\* latest-activity query of row i, which runs after the row's Offline alert
\* was appended (lines 147-158).
dashboard_page_fails(db, latest, at, fault, failed_query) ==
    LET rows == SELECT_COMPUTERS_FOR_DASHBOARD(db.computers)
    IN  IF fault = "connect"
        THEN [rendered |-> TRUE, now |-> NoneVal, latest |-> <<>>,
              alerts |-> <<>>,
              error_message |-> "DASHBOARD_DB_CONN_FAILED_ERROR"]
        ELSE [rendered |-> TRUE,
              now |-> IF failed_query = 0 THEN NoneVal ELSE at,
              latest |-> latest,
              alerts |->
                  IF failed_query = 0 THEN <<>>
                  ELSE AlertsOfRows(SubSeq(rows, 1, failed_query - 1),
                                    latest, at)
                       \o AlertsOfRow(rows[failed_query], <<>>, at),
              error_message |-> "DASHBOARD_DB_FETCH_ERROR"]

NoRender ==
    [rendered |-> FALSE, now |-> NoneVal, latest |-> <<>>, alerts |-> <<>>,
     error_message |-> NoneStr]

\* ------------------------------------------------ the group management API
\* The tables the group API reads and writes, as one value.
GroupStore ==
    [computers |-> computers, computer_groups |-> computer_groups,
     auto_increment |-> auto_increment]

\* name VARCHAR(255) UNIQUE NOT NULL: an INSERT of a name that is already
\* there raises mariadb.Error with errno 1062.
DuplicateGroupName(db, name) == \E g \in db.computer_groups : g.name = name

\* "INSERT INTO computer_groups (name, description) VALUES (%s, %s)": a new
\* row with the next AUTO_INCREMENT id.
INSERT_NEW_GROUP(db, name, description) ==
    [db EXCEPT
       !.computer_groups = @ \cup
           {[id |-> db.auto_increment.computer_groups, name |-> name,
             description |-> description]},
       !.auto_increment.computer_groups = @ + 1]

\* "SELECT id FROM computer_groups WHERE name = %s", then fetchone().
SELECT_GROUP_BY_NAME(db, name) ==
    IF \E g \in db.computer_groups : g.name = name
    THEN <<(CHOOSE g \in db.computer_groups : g.name = name).id>>
    ELSE <<>>

\* "UPDATE computers SET group_id = %s WHERE id = %s"
UPDATE_COMPUTER_GROUP_ID(db, group_id, id) ==
    [db EXCEPT !.computers =
        { IF c.id = id THEN [c EXCEPT !.group_id = group_id] ELSE c : c \in @ }]

\* FOREIGN KEY (group_id) REFERENCES computer_groups(id): a group_id that is
\* no group's id raises mariadb.Error with errno 1452; NULL refers to nothing.
ForeignKeyFails(db, group_id) ==
    group_id # NoneVal /\ ~\E g \in db.computer_groups : g.id = group_id

\* What a handler of the group API leaves behind: its status code, the
\* store, whether get_db_connection was called ("none" when it was not,
\* "failed" when it returned None, "open") and whether conn.rollback() ran.
GroupAnswer(status, db, connection, rollback) ==
    [status |-> status, db |-> db, connection |-> connection,
     rollback |-> rollback]

\* A statement failed: what it wrote is undone, an AUTO_INCREMENT id it took
\* is not given back.
GroupRolledBack(status, db, tx) ==
    GroupAnswer(status, [db EXCEPT !.auto_increment = tx.auto_increment],
                "open", TRUE)

\* Lines 356-386.  Lines 359-362 run before the try of line 364: .strip()
\* on a name or a description that is no string raises AttributeError there,
\* which Flask answers with 500.
create_group(data, db, fault) ==
    IF DOMAIN data = {} \/ "name" \notin DOMAIN data
    THEN GroupAnswer(400, db, "none", FALSE)
    ELSE IF ~IsStrToken(data.name) THEN GroupAnswer(500, db, "none", FALSE)
    ELSE IF Strip(UnStr(data.name)) = ""
    THEN GroupAnswer(400, db, "none", FALSE)
    ELSE IF "description" \in DOMAIN data /\ ~IsStrToken(data.description)
    THEN GroupAnswer(500, db, "none", FALSE)
    ELSE
    LET group_name  == Strip(UnStr(data.name))
        stripped    == IF "description" \in DOMAIN data
                       THEN Strip(UnStr(data.description)) ELSE ""
        description == IF stripped # "" THEN stripped ELSE NoneStr
        tx          == INSERT_NEW_GROUP(db, group_name, description)
    IN  IF fault = "connect" THEN GroupAnswer(500, db, "failed", FALSE)
        ELSE IF fault = "execute" THEN GroupRolledBack(500, db, db)
        ELSE IF DuplicateGroupName(db, group_name)
        THEN GroupRolledBack(409, db, tx)
        ELSE GroupAnswer(201, tx, "open", FALSE)

\* A JSON integer.
JInt(n) == ToString(n)
\* The ids a request names: the ones AUTO_INCREMENT hands out, one that is no
\* group's, and two that are not positive.
GroupIds == -1 .. 9
IntTokens == {JInt(n) : n \in GroupIds}
\* int(value) on a parsed JSON value: the integer, the truncation of a float,
\* 1 and 0 for true and false, the integer a string spells or ValueError,
\* TypeError on a list.
IntLiterals == {"2"}
py_int(tok) ==
    IF tok \in IntTokens
    THEN [raises |-> "none", value |-> CHOOSE n \in GroupIds : JInt(n) = tok]
    ELSE IF IsNumToken(tok)
    THEN [raises |-> "none", value |-> UnNum(tok) \div 1000]
    ELSE IF tok \in {"true", "false"}
    THEN [raises |-> "none", value |-> IF tok = "true" THEN 1 ELSE 0]
    ELSE IF IsStrToken(tok) /\ Strip(UnStr(tok)) \in IntLiterals
    THEN [raises |-> "none",
          value |-> CHOOSE n \in GroupIds : JInt(n) = Strip(UnStr(tok))]
    ELSE IF IsStrToken(tok) THEN [raises |-> "ValueError", value |-> NoneVal]
    ELSE [raises |-> "TypeError", value |-> NoneVal]

\* Lines 439-448: the UPDATE, its commit, and what a mariadb.Error becomes.
AssignTarget(db, target_group_id, computer_id, fault) ==
    IF fault = "execute" THEN GroupRolledBack(500, db, db)
    ELSE IF ForeignKeyFails(db, target_group_id)
    THEN GroupRolledBack(400, db, db)
    ELSE GroupAnswer(200,
                     UPDATE_COMPUTER_GROUP_ID(db, target_group_id, computer_id),
                     "open", FALSE)

\* Lines 409-457.  An exception that is no mariadb.Error (int() of a list,
\* .strip() of a number) is caught at line 450: rollback and 500.
assign_computer_to_group(netbios_name, data, db, fault) ==
    IF DOMAIN data = {} THEN GroupAnswer(400, db, "none", FALSE)
    ELSE IF "group_id" \notin DOMAIN data /\ "group_name" \notin DOMAIN data
    THEN GroupAnswer(400, db, "none", FALSE)
    ELSE IF fault = "connect" THEN GroupAnswer(500, db, "failed", FALSE)
    ELSE
    LET computer_result == SELECT_COMPUTER_BY_NETBIOS(db, netbios_name)
    IN  IF computer_result = <<>> THEN GroupAnswer(404, db, "open", FALSE)
        ELSE IF "group_id" \in DOMAIN data
        THEN IF data.group_id = JNull
             THEN AssignTarget(db, NoneVal, computer_result[1], fault)
             ELSE LET n == py_int(data.group_id)
                  IN  IF n.raises = "TypeError"
                      THEN GroupRolledBack(500, db, db)
                      ELSE IF n.raises = "ValueError" \/ n.value <= 0
                      THEN GroupAnswer(400, db, "open", FALSE)
                      ELSE AssignTarget(db, n.value, computer_result[1], fault)
        ELSE IF data.group_name = JNull
        THEN AssignTarget(db, NoneVal, computer_result[1], fault)
        ELSE IF ~IsStrToken(data.group_name)
        THEN GroupRolledBack(500, db, db)
        ELSE IF Strip(UnStr(data.group_name)) = ""
        THEN AssignTarget(db, NoneVal, computer_result[1], fault)
        ELSE
        LET group_result ==
                SELECT_GROUP_BY_NAME(db, Strip(UnStr(data.group_name)))
        IN  IF group_result = <<>> THEN GroupAnswer(404, db, "open", FALSE)
            ELSE AssignTarget(db, group_result[1], computer_result[1], fault)

\* Lines 388-407: SELECT_ALL_GROUPS; an error is answered 500 with no
\* rollback.
list_groups(db, fault) ==
    IF fault = "connect" THEN GroupAnswer(500, db, "failed", FALSE)
    ELSE IF fault = "execute" THEN GroupAnswer(500, db, "open", FALSE)
    ELSE GroupAnswer(200, db, "open", FALSE)

NoGroupRequest ==
    [count |-> 0, route |-> "", netbios_name |-> "",
     data |-> [x \in {} |-> JNull], fault |-> "none", status |-> 0,
     connection |-> "none", rollback |-> FALSE]

\* ------------------------------------- what a route does to its connection
\* Mutant: the finally clause closes the cursor and leaves the connection.
FinallyKeepsConnection(cursor, conn) ==
    IF cursor THEN <<"cursor.close">> ELSE <<>>

\* The finally clause of every route: "if cursor: cursor.close()" and
\* "if conn: conn.close()".
Finally(cursor, conn) ==
    (IF cursor THEN <<"cursor.close">> ELSE <<>>)
        \o (IF conn THEN <<"conn.close">> ELSE <<>>)

\* The calls of one request: none when it returns before the try;
\* get_db_connection alone when it returns None; else the cursor, what the
\* route does between (commit, rollback or neither) and the finally clause.
ConnectionCalls(route, status, asked, fault, between) ==
    [route |-> route, status |-> status,
     calls |-> IF ~asked THEN <<>>
               ELSE IF fault = "connect"
               THEN <<"get_db_connection: None">> \o Finally(FALSE, FALSE)
               ELSE <<"get_db_connection", "cursor">> \o between
                        \o Finally(TRUE, TRUE)]

NoCalls == [route |-> "", status |-> 0, calls |-> <<>>]

\* Lines 202-228: the returns of log_activity that come before the try.
RejectedBeforeConnecting(data) ==
    \/ DOMAIN data = {}
    \/ ~Truthy(Get(data, "log_type"))
    \/ ~Truthy(Get(data, "timestamp"))
    \/ ~(IsStrToken(data.timestamp) /\ IsIso(UnStr(data.timestamp)))
    \/ "netbios_name" \notin DOMAIN data
    \/ Strip(PyStr(data.netbios_name)) = ""

\* Lines 245 and 304: a machine or ping record without ip_address returns
\* 400 from inside the try, with no rollback.
ReturnsWithoutRollback(data) ==
    /\ Get(data, "log_type") \in {JStr("machine"), JStr("ping")}
    /\ \/ ~Truthy(Get(data, "ip_address"))
       \/ Strip(PyStr(Get(data, "ip_address"))) = ""

\* Lines 230-354: commit at line 330 on the way to 200; rollback before the
\* returns of lines 283 and 328 and in every except clause.
log_activity_calls(data, status, fault) ==
    ConnectionCalls("log_activity", status, ~RejectedBeforeConnecting(data),
                    fault,
                    IF status = 200 THEN <<"commit">>
                    ELSE IF ReturnsWithoutRollback(data) THEN <<>>
                    ELSE <<"rollback">>)

\* create_group (commit at line 369), assign_computer_to_group (line 440)
\* and list_groups, which only reads.
GroupCalls(route, out) ==
    ConnectionCalls(route, out.status, out.connection # "none",
                    IF out.connection = "failed" THEN "connect" ELSE "none",
                    IF out.status \in {200, 201} /\ route # "list_groups"
                    THEN <<"commit">>
                    ELSE IF out.rollback THEN <<"rollback">>
                    ELSE <<>>)

\* Lines 131-187 of dashboard_page: it reads, and never commits or rolls
\* back.
dashboard_calls(fault) ==
    ConnectionCalls("dashboard_page", 200, TRUE, fault, <<>>)

\* ================================================================ ACTIONS
\* ----------------------------------------------------------- the collector
SetStore(db) ==
    /\ computers' = db.computers
    /\ activity_logs' = db.activity_logs
    /\ application_usage_logs' = db.application_usage_logs
    /\ auto_increment' = db.auto_increment

\* What the database does to one request: nothing, no connection, or an
\* error on the insert.
DbFaults == {"none", "connect", "execute"}

\* One request to /log_activity, served from start to end.
Serve(data, fault) ==
    /\ fault \in {"none", "connect", "execute"}
    /\ db_faults + Cost(fault # "none") <= MaxDbFaults
    /\ db_faults' = db_faults + Cost(fault # "none")
    /\ LET out == log_activity(data, Store, fault)
       IN  /\ SetStore(out.db)
           /\ served' = [count |-> served.count + 1, data |-> data,
                         fault |-> fault, status |-> out.status,
                         accepted |-> IF out.status = 200
                                      THEN Append(served.accepted, data)
                                      ELSE served.accepted]
           /\ db_calls' = log_activity_calls(data, out.status, fault)
    /\ render' = NoRender
    /\ UNCHANGED <<computer_groups, in_flight, group_api>>

\* A request of some client of the collector.
Request(data, fault) ==
    /\ served.count < MaxRequests
    /\ Serve(data, fault)

\* One render of the dashboard.
Dashboard(latest, at) ==
    /\ render' = dashboard_page(Store, latest, at)
    /\ db_calls' = dashboard_calls("none")
    /\ UNCHANGED <<computers, activity_logs, application_usage_logs,
                   auto_increment, served, db_faults, computer_groups,
                   in_flight, group_api>>

\* One render of the dashboard over a store that fails.
DashboardFails(latest, at, fault, failed_query) ==
    /\ fault \in {"connect", "execute"}
    /\ failed_query \in 0 .. Cardinality(computers)
    /\ fault = "connect" => failed_query = 0
    /\ db_faults + 1 <= MaxDbFaults
    /\ db_faults' = db_faults + 1
    /\ render' = dashboard_page_fails(Store, latest, at, fault, failed_query)
    /\ db_calls' = dashboard_calls(fault)
    /\ UNCHANGED <<computers, activity_logs, application_usage_logs,
                   auto_increment, served, computer_groups, in_flight,
                   group_api>>

\* ------------------------------------------------------------ the group API
SetGroupStore(db) ==
    /\ computers' = db.computers
    /\ computer_groups' = db.computer_groups
    /\ auto_increment' = db.auto_increment

GroupRequest(route, netbios_name, data, fault, out) ==
    /\ group_api.count < MaxRequests
    /\ fault \in DbFaults
    /\ db_faults + Cost(fault # "none") <= MaxDbFaults
    /\ db_faults' = db_faults + Cost(fault # "none")
    /\ SetGroupStore(out.db)
    /\ group_api' = [count |-> group_api.count + 1, route |-> route,
                     netbios_name |-> netbios_name, data |-> data,
                     fault |-> fault, status |-> out.status,
                     connection |-> out.connection, rollback |-> out.rollback]
    /\ db_calls' = GroupCalls(route, out)
    /\ UNCHANGED <<activity_logs, application_usage_logs, served, render,
                   in_flight>>

\* One request to POST /api/groups/create, served from start to end.
CreateGroup(data, fault) ==
    GroupRequest("create_group", "", data, fault,
                 create_group(data, GroupStore, fault))

\* One request to GET /api/groups.
ListGroups(fault) ==
    GroupRequest("list_groups", "", [x \in {} |-> JNull], fault,
                 list_groups(GroupStore, fault))

\* One request to POST /api/computers/<netbios_name>/assign_group.
AssignGroup(netbios_name, data, fault) ==
    GroupRequest("assign_computer_to_group", netbios_name, data, fault,
                 assign_computer_to_group(netbios_name, data, GroupStore, fault))

\* ------------------------------------------------- records clients send
MachineRecord(name, t, ip, cpu, gpu) ==
    [log_type |-> JStr("machine"), timestamp |-> JStr(IsoFormat(t)),
     netbios_name |-> JStr(name), ip_address |-> JStr(ip),
     free_disk_space_gb |-> JNull, cpu_usage_percent |-> JNum(cpu),
     gpu_usage_percent |-> JNum(gpu), os_name |-> JStr("Windows"),
     os_version |-> JStr("10")]
BareMachineRecord(name, t, ip) ==
    [log_type |-> JStr("machine"), timestamp |-> JStr(IsoFormat(t)),
     netbios_name |-> JStr(name), ip_address |-> JStr(ip)]
ApplicationRecord(name, t) ==
    [log_type |-> JStr("application"), timestamp |-> JStr(IsoFormat(t)),
     netbios_name |-> JStr(name), active_window_title |-> JStr("Editor")]
PingRecord(name, t, ip) ==
    [log_type |-> JStr("ping"), timestamp |-> JStr(IsoFormat(t)),
     netbios_name |-> JStr(name), ip_address |-> JStr(ip)]

Requests ==
    { MachineRecord("PC1", 0, "10.0.0.5", NoneVal, NoneVal),
      MachineRecord("PC1", 60, "10.0.0.5", 95500, NoneVal),
      MachineRecord("PC1", 60, "10.0.0.5", 90000, 96260),
      MachineRecord("PC1", 120, "10.0.0.6", NoneVal, NoneVal),
      MachineRecord("PC2", 60, "10.0.0.6", 90040, NoneVal),
      BareMachineRecord("PC1", 120, "10.0.0.5"),
      ApplicationRecord("PC1", 60),
      ApplicationRecord("PC2", 120),
      PingRecord("PC1", 120, "10.0.0.6"),
      PingRecord("PC2", 0, "10.0.0.5"),
      [x \in {} |-> JNull],
      [timestamp |-> JStr(IsoFormat(0)), netbios_name |-> JStr("PC1")],
      [log_type |-> JStr("machine"), timestamp |-> JStr("yesterday"),
       netbios_name |-> JStr("PC1"), ip_address |-> JStr("10.0.0.5")],
      [log_type |-> JStr("machine"), timestamp |-> JStr(IsoFormat(0)),
       netbios_name |-> JStr(" "), ip_address |-> JStr("10.0.0.5")],
      [log_type |-> JStr("machine"), timestamp |-> JStr(IsoFormat(0)),
       netbios_name |-> JStr("PC1")],
      [log_type |-> JStr("update"), timestamp |-> JStr(IsoFormat(0)),
       netbios_name |-> JStr("PC1")] }

\* The instants at which the dashboard is rendered.
RenderTimes == {1860, 1920}

\* ------------------------------------------------------------ initial states
InitAgent(scenarios, limit) ==
    /\ \E sc \in scenarios :
          /\ config_ini = ConfigFileOf(sc.cfg)
          /\ app_config = sc.cfg
          /\ requests_available = sc.requests
          /\ host = sc.host
          /\ now = sc.start
    /\ pc = "top"
    /\ tick = 1
    /\ tick_limit = limit
    /\ faults = 0
    /\ last_ping_time = NoneVal
    /\ current_time = NoneVal
    /\ machine_payload = <<>>
    /\ application_payload = <<>>
    /\ json_machine_data_for_log = <<>>
    /\ json_app_data_for_log = <<>>
    /\ readings = [cpu_val |-> NoneVal, gpu_val |-> NoneVal,
                   free_space_gb_val |-> NoneVal]
    /\ events = <<>>
    /\ signalled = FALSE
    /\ log_files = {}

\* A row of computers that no agent has reported for yet (last_seen NULL).
NeverSeen ==
    [id |-> 1, netbios_name |-> "PC3", ip_address |-> NoneStr,
     last_seen |-> NoneVal, group_id |-> NoneVal, os_name |-> NoneStr,
     os_version |-> NoneStr]

\* The stores a behaviour starts from: nothing reported yet; one computer
\* registered that never reported; PC1 with the sample it reported at
\* instant 0, CPU at 95.5.
EmptyStore ==
    [computers |-> {}, activity_logs |-> {}, application_usage_logs |-> {},
     auto_increment |-> [computers |-> 1, activity_logs |-> 1,
                         application_usage_logs |-> 1, computer_groups |-> 1]]
RegisteredStore ==
    [EmptyStore EXCEPT !.computers = {NeverSeen},
                       !.auto_increment.computers = 2]
ReportedStore ==
    log_activity(MachineRecord(Hostname, 0, HostIp, 95500, NoneVal),
                 EmptyStore, "none").db

InitStore(stores) ==
    /\ \E st \in stores :
          /\ computers = st.computers
          /\ activity_logs = st.activity_logs
          /\ application_usage_logs = st.application_usage_logs
          /\ auto_increment = st.auto_increment
    /\ served = [count |-> 0, data |-> [x \in {} |-> JNull], fault |-> "none",
                 status |-> 0, accepted |-> <<>>]
    /\ db_faults = 0
    /\ render = NoRender
    /\ computer_groups = {}
    /\ in_flight = [w \in Workers |-> <<>>]
    /\ group_api = NoGroupRequest
    /\ db_calls = NoCalls

InitServer == InitStore({EmptyStore, RegisteredStore})

\* ------------------------------------------------------------ the agent
\* One step of the loop of main(); the collector's store is not the agent's.
AgentStep ==
    \/ \E response \in Responses, appended \in BOOLEAN, sched_error \in BOOLEAN,
          dumps_error \in BOOLEAN :
          PingTask(response, appended, sched_error, dumps_error)
              /\ UNCHANGED serverVars
    \/ \E r \in ProviderReadings(host), error \in BOOLEAN :
          Collect(r.cpu_val, r.gpu_val, r.free_space_gb_val, error)
              /\ UNCHANGED serverVars
    \/ \E ser \in {"ok", "TypeError", "Error"}, appended \in BOOLEAN :
          MachineLog(ser, appended) /\ UNCHANGED serverVars
    \/ \E response \in Responses : MachineSend(response) /\ UNCHANGED serverVars
    \/ \E ser \in {"ok", "TypeError", "Error"}, appended \in BOOLEAN :
          AppLog(ser, appended) /\ UNCHANGED serverVars
    \/ \E response \in Responses : AppSend(response) /\ UNCHANGED serverVars
    \/ TickSleep /\ UNCHANGED serverVars
    \/ ErrorPause /\ UNCHANGED serverVars

NextAgent ==
    \/ AgentStep
    \/ Terminate /\ UNCHANGED serverVars

\* The agent loop against a collector seen only through its answers.
InitLoop == InitAgent(Scenarios, MaxTicks) /\ InitServer
SpecAgent == InitLoop /\ [][NextAgent]_vars

\* The same loop under the scheduling a running process gets: a step that
\* can be taken is taken (sleep returns, a POST ends within its timeout).
SpecLive == InitLoop /\ [][NextAgent]_vars /\ WF_vars(AgentStep)

\* The payload builder on every reading of interest: one tick per behaviour.
InitPayload == InitAgent(PayloadScenarios, 1) /\ InitServer
SpecPayload == InitPayload /\ [][NextAgent]_vars

\* ------------------------------------------------------ the collector alone
NextServer ==
    \/ \E data \in Requests, fault \in {"none", "connect", "execute"} :
          Request(data, fault) /\ UNCHANGED agentVars
    \/ \E at \in RenderTimes : \E latest \in LatestChoices(Store) :
          Dashboard(latest, at) /\ UNCHANGED agentVars

\* The agent stands still: it has not started its first tick.
InitCollector ==
    InitAgent({Scenario(ConfigDefaults, TRUE, "quiet", 0)}, 0) /\ InitServer
SpecServer == InitCollector /\ [][NextServer]_vars

\* -------------------------------------------- the ingestion route by itself
\* Bodies on every path of log_activity: records that are accepted (some
\* stamped earlier than what the store holds), and one body for each way of
\* being turned away.  A body that is not JSON reaches the handler as None,
\* which it treats like the empty object.
IngestRequests ==
    { MachineRecord("PC1", 60, "10.0.0.5", 95500, NoneVal),
      MachineRecord("PC1", 0, "10.0.0.6", NoneVal, NoneVal),
      PingRecord("PC1", 0, "10.0.0.6"),
      PingRecord("PC2", 60, "10.0.0.5"),
      ApplicationRecord("PC2", 120),
      [x \in {} |-> JNull],
      [timestamp |-> JStr(IsoFormat(0)), netbios_name |-> JStr("PC1")],
      [log_type |-> JStr("machine"), netbios_name |-> JStr("PC1"),
       ip_address |-> JStr("10.0.0.5")],
      [log_type |-> JStr("machine"), timestamp |-> JStr("yesterday"),
       netbios_name |-> JStr("PC1"), ip_address |-> JStr("10.0.0.5")],
      [log_type |-> JStr("machine"), timestamp |-> JNum(95500),
       netbios_name |-> JStr("PC1"), ip_address |-> JStr("10.0.0.5")],
      [log_type |-> JStr("ping"), timestamp |-> JStr(IsoFormat(0)),
       ip_address |-> JStr("10.0.0.5")],
      [log_type |-> JStr("ping"), timestamp |-> JStr(IsoFormat(0)),
       netbios_name |-> JStr(" "), ip_address |-> JStr("10.0.0.5")],
      [log_type |-> JStr("update"), timestamp |-> JStr(IsoFormat(0)),
       netbios_name |-> JStr("PC1")],
      [log_type |-> JStr("machine"), timestamp |-> JStr(IsoFormat(0)),
       netbios_name |-> JStr("PC1")],
      PingRecord("PC1", 60, " ") }

NextIngest ==
    \E data \in IngestRequests, fault \in DbFaults :
        Request(data, fault) /\ UNCHANGED agentVars

SpecIngest == InitCollector /\ [][NextIngest]_vars

\* ------------------------------------------- the agent and its collector
\* The collector's part in a step of the agent.  A POST the step issued is
\* served unless the connection failed, and the agent sees the status the
\* handler answered with (raise_for_status turns 4xx and 5xx into HTTPError).
Delivery(response, fault) ==
    LET issued == SelectSeq(SubSeq(events', Len(events) + 1, Len(events')),
                            LAMBDA e : e.kind = "post")
    IN  IF issued = <<>> \/ response = "ConnectionError"
        THEN fault = "none" /\ UNCHANGED serverVars
        ELSE /\ Serve(issued[1].body, fault)
             /\ (response = "200") <=> (served'.status = 200)

NextWatched ==
    \/ \E response \in Responses, appended \in BOOLEAN, sched_error \in BOOLEAN,
          dumps_error \in BOOLEAN, fault \in DbFaults :
          PingTask(response, appended, sched_error, dumps_error)
              /\ Delivery(response, fault)
    \/ \E r \in ProviderReadings(host), error \in BOOLEAN :
          Collect(r.cpu_val, r.gpu_val, r.free_space_gb_val, error)
              /\ UNCHANGED serverVars
    \/ \E ser \in {"ok", "TypeError", "Error"}, appended \in BOOLEAN :
          MachineLog(ser, appended) /\ UNCHANGED serverVars
    \/ \E response \in Responses, fault \in DbFaults :
          MachineSend(response) /\ Delivery(response, fault)
    \/ \E ser \in {"ok", "TypeError", "Error"}, appended \in BOOLEAN :
          AppLog(ser, appended) /\ UNCHANGED serverVars
    \/ \E response \in Responses, fault \in DbFaults :
          AppSend(response) /\ Delivery(response, fault)
    \/ TickSleep /\ UNCHANGED serverVars
    \/ ErrorPause /\ UNCHANGED serverVars
    \/ \E latest \in LatestChoices(Store) :
          Dashboard(latest, now) /\ UNCHANGED agentVars

\* One agent reporting to the collector whose dashboard is looked at.
InitWatched ==
    InitAgent(WatchedScenarios, 1) /\ InitStore({EmptyStore, ReportedStore})
SpecWatched == InitWatched /\ [][NextWatched]_vars

\* One agent reporting, tick after tick, to a collector that has not heard of
\* it: every POST is served when it is made, before the agent's next step.
\* The agent is followed from its first tick, or from the tick after one in
\* which the collector could not be reached: the ping of instant 0 is behind
\* it, the day's log file exists, the next ping is due 60 seconds later.
InitReporting ==
    /\ config_ini = ConfigFileOf(Connected)
    /\ app_config = Connected
    /\ requests_available = TRUE
    /\ host = "quiet"
    /\ \/ now = 0 /\ last_ping_time = NoneVal /\ log_files = {}
       \/ now = 30 /\ last_ping_time = 0 /\ log_files = {LogFileName(0)}
    /\ pc = "top"
    /\ tick = 1
    /\ tick_limit = MaxTicks
    /\ faults = 0
    /\ current_time = NoneVal
    /\ machine_payload = <<>>
    /\ application_payload = <<>>
    /\ json_machine_data_for_log = <<>>
    /\ json_app_data_for_log = <<>>
    /\ readings = [cpu_val |-> NoneVal, gpu_val |-> NoneVal,
                   free_space_gb_val |-> NoneVal]
    /\ events = <<>>
    /\ signalled = FALSE
    /\ InitStore({EmptyStore})
SpecReporting == InitReporting /\ [][NextWatched]_vars

\* ------------------------------------------- the process from its start
\* The file of a day, and the folders a process may find when it starts (on
\* day 20): empty; files 20 and 5 days old; files on both sides of 14 days,
\* today's and one dated tomorrow; names cleanup_old_logs does not take for
\* log files; all of these together.
Dated(d) == LogFileName(d * SecondsPerDay)
StrayNames ==
    {"991332" \o LogSuffix, "backup" \o LogSuffix, "agent.ini",
     Dated(0) \o ".bak", "old-" \o Dated(0)}
FolderListings ==
    { {},
      {Dated(0), Dated(15)},
      {Dated(5), Dated(6), Dated(20), Dated(21)},
      StrayNames,
      {Dated(0), Dated(5), Dated(6), Dated(15), Dated(20), Dated(21)}
          \cup StrayNames }
RetentionDays == {-1, 0, 14}

\* main() before its first statement, on day 20.
InitProcess ==
    /\ \E r \in RetentionDays :
          /\ app_config = [ConfigDefaults EXCEPT !.log_retention_days = r]
          /\ config_ini = ConfigFileOf(app_config)
    /\ log_files \in FolderListings
    /\ requests_available = TRUE
    /\ host = "quiet"
    /\ now = 20 * SecondsPerDay
    /\ pc = "startup"
    /\ tick = 1
    /\ tick_limit = 1
    /\ faults = 0
    /\ last_ping_time = NoneVal
    /\ current_time = NoneVal
    /\ machine_payload = <<>>
    /\ application_payload = <<>>
    /\ json_machine_data_for_log = <<>>
    /\ json_app_data_for_log = <<>>
    /\ readings = [cpu_val |-> NoneVal, gpu_val |-> NoneVal,
                   free_space_gb_val |-> NoneVal]
    /\ events = <<>>
    /\ signalled = FALSE

NextStartup ==
    \/ \E fault \in {"none", "no_folder", "listdir"} :
          \E locked \in {{}} \cup {{f} : f \in log_files} :
              Cleanup(fault, locked) /\ UNCHANGED serverVars
    \/ NextAgent

InitStartup == InitProcess /\ InitServer
SpecStartup == InitStartup /\ [][NextStartup]_vars

\* ----------------------------------------------- the process and config.ini
\* The files a process may find: none; an empty one; one with the server's
\* address only; one that sets some options of agent_settings and leaves the
\* others out; one that spells out every option; one with a negative
\* retention; two with an address and a threshold that is no integer; one
\* configparser cannot parse.
AddressOnly == [server |-> [address |-> ServerAddress]]
SomeSettings ==
    [agent_settings |->
        [cpu_alert_threshold |-> "75", log_folder |-> "logs",
         log_retention_days |-> "3"]]
ConfigFiles ==
    { ConfigIni(FALSE, FALSE, NoSections),
      ConfigIni(TRUE, FALSE, NoSections),
      ConfigIni(TRUE, FALSE, AddressOnly),
      ConfigIni(TRUE, FALSE, SomeSettings),
      ConfigIni(TRUE, FALSE, [server |-> NoOptions,
                              agent_settings |->
                                  [ping_interval_seconds |-> "30"]]),
      ConfigFileOf(Sensitive),
      ConfigFileOf([Connected EXCEPT !.log_retention_days = -1]),
      ConfigIni(TRUE, FALSE,
          [server |-> [address |-> ServerAddress],
           agent_settings |-> [cpu_alert_threshold |-> "75",
                               gpu_alert_threshold |-> "high"]]),
      ConfigIni(TRUE, FALSE,
          [server |-> [address |-> ServerAddress],
           agent_settings |-> [log_folder |-> "logs",
                               disk_space_alert_threshold_gb |-> "20.5"]]),
      ConfigIni(TRUE, TRUE, AddressOnly) }

\* What app_config is before line 261 has run.
NoConfig == [x \in {} |-> ""]

InitConfig ==
    /\ config_ini \in ConfigFiles
    /\ app_config = NoConfig
    /\ log_files = {}
    /\ requests_available = TRUE
    /\ host = "quiet"
    /\ now = 0
    /\ pc = "config"
    /\ tick = 1
    /\ tick_limit = 1
    /\ faults = 0
    /\ last_ping_time = NoneVal
    /\ current_time = NoneVal
    /\ machine_payload = <<>>
    /\ application_payload = <<>>
    /\ json_machine_data_for_log = <<>>
    /\ json_app_data_for_log = <<>>
    /\ readings = [cpu_val |-> NoneVal, gpu_val |-> NoneVal,
                   free_space_gb_val |-> NoneVal]
    /\ events = <<>>
    /\ signalled = FALSE
    /\ InitServer

NextConfig ==
    \/ LoadConfig /\ UNCHANGED serverVars
    \/ NextStartup

SpecConfig == InitConfig /\ [][NextConfig]_vars

\* ------------------------------------------------------- the group API alone
\* Bodies of POST /api/groups/create: no name, a blank one, one that is no
\* string, names with and without a description, a description of null.
CreateBodies ==
    { [x \in {} |-> JNull],
      [description |-> JStr("Editor")],
      [name |-> JStr("")],
      [name |-> JStr(" ")],
      [name |-> JNull],
      [name |-> JStr("Lab")],
      [name |-> JStr("Lab ")],
      [name |-> JStr("Office"), description |-> JStr("Editor")],
      [name |-> JStr("Office"), description |-> JStr(" ")],
      [name |-> JStr("Lab"), description |-> JNull] }

\* Values of group_id and of group_name in a body of assign_group.
GroupIdValues ==
    {JNull, JInt(1), JInt(2), JInt(9), JInt(0), JInt(-1), JNum(1500), "true",
     "[]", JStr("2"), JStr("two")}
GroupNameValues ==
    {JNull, JStr(""), JStr(" "), JStr("Lab"), JStr("Lab "), JStr("Office"),
     JNum(1500)}
AssignBodies ==
    { [x \in {} |-> JNull], [name |-> JStr("Lab")] }
    \cup {[group_id |-> v] : v \in GroupIdValues}
    \cup {[group_name |-> v] : v \in GroupNameValues}
    \cup { [group_id |-> JInt(1), group_name |-> JNull],
           [group_id |-> JNull, group_name |-> JStr("Lab")] }

\* The computers a request names: PC3 and PC1 are registered, PC2 is not.
AssignNames == {"PC1", "PC2", "PC3"}

\* PC3 registered and never seen, PC1 seen at instant 0; no group yet.
SeenOnce ==
    [id |-> 2, netbios_name |-> Hostname, ip_address |-> HostIp,
     last_seen |-> 0, group_id |-> NoneVal, os_name |-> "Windows",
     os_version |-> "10"]
TwoComputers ==
    [EmptyStore EXCEPT !.computers = {NeverSeen, SeenOnce},
                       !.auto_increment.computers = 3]

NextGroups ==
    \/ \E data \in CreateBodies, fault \in DbFaults :
          CreateGroup(data, fault) /\ UNCHANGED agentVars
    \/ \E netbios_name \in AssignNames, data \in AssignBodies,
          fault \in DbFaults :
          AssignGroup(netbios_name, data, fault) /\ UNCHANGED agentVars

InitGroups ==
    InitAgent({Scenario(ConfigDefaults, TRUE, "quiet", 0)}, 0)
        /\ InitStore({TwoComputers})
SpecGroups == InitGroups /\ [][NextGroups]_vars

\* ------------------------------------------------------- every route
\* One body for each way out of log_activity, of create_group and of
\* assign_computer_to_group.
RouteRecords ==
    { MachineRecord("PC1", 60, "10.0.0.5", 95500, NoneVal),
      ApplicationRecord("PC1", 60),
      ApplicationRecord("PC2", 120),
      PingRecord("PC2", 60, " "),
      [x \in {} |-> JNull],
      [log_type |-> JStr("update"), timestamp |-> JStr(IsoFormat(0)),
       netbios_name |-> JStr("PC1")] }
RouteCreateBodies ==
    { [name |-> JStr("Lab")], [name |-> JStr(" ")],
      [description |-> JStr("Editor")] }
RouteAssignBodies ==
    { [group_id |-> JInt(1)], [group_id |-> JInt(0)], [group_id |-> "[]"],
      [group_name |-> JStr("Office")], [name |-> JStr("Lab")] }
\* The query of a render that fails: the first, or a row's.
RouteQueries == 0 .. Cardinality(TwoComputers.computers)
\* The dashboard is looked at 31 minutes after instant 0.
RouteRenderTime == 31 * 60

\* Requests to the API share the budget of MaxRequests; the dashboard is
\* rendered at any time.
NextRoutes ==
    \/ \E data \in RouteRecords, fault \in DbFaults :
          /\ served.count + group_api.count < MaxRequests
          /\ Request(data, fault) /\ UNCHANGED agentVars
    \/ \E data \in RouteCreateBodies, fault \in DbFaults :
          /\ served.count + group_api.count < MaxRequests
          /\ CreateGroup(data, fault) /\ UNCHANGED agentVars
    \/ \E netbios_name \in {"PC1", "PC2"}, data \in RouteAssignBodies,
          fault \in DbFaults :
          /\ served.count + group_api.count < MaxRequests
          /\ AssignGroup(netbios_name, data, fault) /\ UNCHANGED agentVars
    \/ \E fault \in DbFaults :
          /\ served.count + group_api.count < MaxRequests
          /\ ListGroups(fault) /\ UNCHANGED agentVars
    \/ \E latest \in LatestChoices(Store) :
          Dashboard(latest, RouteRenderTime) /\ UNCHANGED agentVars
    \/ \E latest \in LatestChoices(Store) :
          \E fault \in {"connect", "execute"}, failed_query \in RouteQueries :
              DashboardFails(latest, RouteRenderTime, fault, failed_query)
                  /\ UNCHANGED agentVars

InitRoutes ==
    InitAgent({Scenario(ConfigDefaults, TRUE, "quiet", 0)}, 0)
        /\ InitStore({TwoComputers})
SpecRoutes == InitRoutes /\ [][NextRoutes]_vars

\* --------------------------------------- records of computers in a group
\* Records about PC1, which the store knows, and PC2, which it does not: a
\* machine record with and one without os_name and os_version, a ping of
\* each computer, an application record with and one without a title.
FrameRecords ==
    { MachineRecord("PC1", 60, "10.0.0.6", 95500, NoneVal),
      BareMachineRecord("PC1", 120, "10.0.0.6"),
      PingRecord("PC1", 120, "10.0.0.6"),
      PingRecord("PC2", 0, "10.0.0.5"),
      ApplicationRecord("PC1", 60),
      [log_type |-> JStr("application"), timestamp |-> JStr(IsoFormat(60)),
       netbios_name |-> JStr("PC1")],
      ApplicationRecord("PC2", 120) }

\* The group Lab is created and PC1 is put into it, before, between or
\* after the records, within the one budget of MaxRequests; the dashboard is
\* rendered at any time.
NextFrame ==
    \/ \E data \in FrameRecords, fault \in DbFaults :
          /\ served.count + group_api.count < MaxRequests
          /\ Request(data, fault) /\ UNCHANGED agentVars
    \/ \E fault \in DbFaults :
          /\ served.count + group_api.count < MaxRequests
          /\ CreateGroup([name |-> JStr("Lab")], fault) /\ UNCHANGED agentVars
    \/ \E fault \in DbFaults :
          /\ served.count + group_api.count < MaxRequests
          /\ AssignGroup("PC1", [group_id |-> JInt(1)], fault)
          /\ UNCHANGED agentVars
    \/ \E latest \in LatestChoices(Store) :
          Dashboard(latest, RouteRenderTime) /\ UNCHANGED agentVars

SpecFrame == InitRoutes /\ [][NextFrame]_vars

\* -------------------------------------------- requests served side by side
\* Each request has its own connection and transaction (line 233); nothing in
\* the process keeps two of them apart.  A worker's lookup reads what is
\* committed when it runs; the statements after it are applied, and
\* committed or rolled back, in one step: InnoDB makes an INSERT or UPDATE
\* that meets another transaction's row wait until that transaction ended.
ConcurrentRequests ==
    { MachineRecord("PC1", 60, "10.0.0.5", 95500, NoneVal),
      MachineRecord("PC1", 0, "10.0.0.6", NoneVal, NoneVal),
      MachineRecord("PC2", 60, "10.0.0.6", 90040, NoneVal),
      PingRecord("PC2", 60, "10.0.0.6"),
      ApplicationRecord("PC1", 120) }

InFlight == {w \in Workers : in_flight[w] # <<>>}

\* Lines 200-240: a worker takes a request and looks the computer up.
Begin(w, data) ==
    /\ in_flight[w] = <<>>
    /\ served.count + Cardinality(InFlight) < MaxRequests
    /\ in_flight' = [in_flight EXCEPT ![w] = <<[data |-> data, seen |-> Store]>>]
    /\ UNCHANGED <<computers, activity_logs, application_usage_logs,
                   auto_increment, served, db_faults, render, computer_groups,
                   group_api, db_calls>>

\* Lines 242-354: the rest of the handler, up to its answer.
Finish(w, fault) ==
    /\ in_flight[w] # <<>>
    /\ fault \in DbFaults
    /\ db_faults + Cost(fault # "none") <= MaxDbFaults
    /\ db_faults' = db_faults + Cost(fault # "none")
    /\ LET data == in_flight[w][1].data
           out == log_activity_tx(data, in_flight[w][1].seen, Store, fault)
       IN  /\ SetStore(out.db)
           /\ db_calls' = log_activity_calls(data, out.status, fault)
           /\ served' = [count |-> served.count + 1, data |-> data,
                         fault |-> fault, status |-> out.status,
                         accepted |-> IF out.status = 200
                                      THEN Append(served.accepted, data)
                                      ELSE served.accepted]
    /\ in_flight' = [in_flight EXCEPT ![w] = <<>>]
    /\ UNCHANGED <<render, computer_groups, group_api>>

NextConcurrent ==
    \/ \E w \in Workers, data \in ConcurrentRequests :
          Begin(w, data) /\ UNCHANGED agentVars
    \/ \E w \in Workers, fault \in DbFaults :
          Finish(w, fault) /\ UNCHANGED agentVars

InitConcurrent ==
    InitAgent({Scenario(ConfigDefaults, TRUE, "quiet", 0)}, 0)
        /\ InitStore({EmptyStore, ReportedStore})
SpecConcurrent == InitConcurrent /\ [][NextConcurrent]_vars

\* ================================================================= CLAIMS
\* The record an event carries: the line of an append, the body of a POST.
RecordOf(e) == IF e.kind = "append" THEN e.line ELSE e.body
IsRecordEvent(e) == e.kind \in {"append", "post"}
HasType(rec, type) == "log_type" \in DOMAIN rec /\ rec.log_type = JStr(type)
\* The machine records logged or sent in the current tick.
MachineEventsOfTick ==
    {i \in DOMAIN events :
        /\ IsRecordEvent(events[i])
        /\ events[i].tick = tick
        /\ HasType(RecordOf(events[i]), "machine")}

\* What the claim expects in cpu_usage_percent / gpu_usage_percent for raw
\* reading v and threshold T (percent): null, or round(v, 1) as JSON prints it.
ExpectedUsageToken(v, T) ==
    IF v = NoneVal \/ v <= T * 1000 THEN "null" ELSE FloatRepr(PyRound(v, 1))

\* C1: in every machine record appended to the local log or sent to the
\* collector, cpu_usage_percent (gpu_usage_percent) is null when the raw
\* reading of the tick is absent or <= the agent's threshold, and round(v, 1)
\* when it is above it.
C1_UsageThresholded ==
    \A i \in MachineEventsOfTick :
        /\ RecordOf(events[i]).cpu_usage_percent =
               ExpectedUsageToken(readings.cpu_val, app_config.cpu_alert_threshold)
        /\ RecordOf(events[i]).gpu_usage_percent =
               ExpectedUsageToken(readings.gpu_val, app_config.gpu_alert_threshold)

\* A reading above the threshold (95.53 > 90) was logged and sent as 95.5.
C1_Witness ==
    /\ readings.cpu_val = 95530
    /\ app_config.cpu_alert_threshold = 90
    /\ \E i, j \in MachineEventsOfTick :
          /\ events[i].kind = "append" /\ events[j].kind = "post"
          /\ events[i].line.cpu_usage_percent = "95.5"
          /\ events[j].body.cpu_usage_percent = "95.5"

\* C2 (as claimed): free_disk_space_gb is null when the raw reading v >= T and
\* round(v, 2) when v < T, also when round(v, 2) = T.
C2_DiskThresholdedOnRawValue ==
    \A i \in MachineEventsOfTick :
        LET v == readings.free_space_gb_val
            T == app_config.disk_space_alert_threshold_gb
        IN  RecordOf(events[i]).free_disk_space_gb =
                (IF v = NoneVal \/ v >= T * 1000 THEN "null"
                 ELSE FloatRepr(PyRound(v, 2)))


\* ------------------------------------------------------------ the collector
\* The accepted requests of a type, by their position in the order of arrival.
AcceptedOfType(type) ==
    {i \in DOMAIN served.accepted : HasType(served.accepted[i], type)}
\* The name a record is filed under.
NameOf(data) == Strip(PyStr(data.netbios_name))
\* A record that passes the checks every log type shares: a timestamp in ISO
\* format and a name that is not blank.
WellFormed(data) ==
    /\ "timestamp" \in DOMAIN data /\ IsStrToken(data.timestamp)
    /\ IsIso(UnStr(data.timestamp))
    /\ "netbios_name" \in DOMAIN data /\ NameOf(data) # ""
HasIp(data) ==
    "ip_address" \in DOMAIN data /\ IsStrToken(data.ip_address)
        /\ Strip(UnStr(data.ip_address)) # ""
Known(name) == \E c \in computers : c.netbios_name = name
\* This step served one more request.
Served == served'.count = served.count + 1

\* C3: after any sequence of requests served one after another, no two rows
\* of computers share a netbios_name, every name of an accepted machine record
\* has exactly one row, and activity_logs holds exactly one row per accepted
\* machine record.
C3_IdempotentUpsert ==
    /\ \A c1, c2 \in computers : c1.netbios_name = c2.netbios_name => c1 = c2
    /\ \A i \in AcceptedOfType("machine") :
          Cardinality({c \in computers :
              c.netbios_name = NameOf(served.accepted[i])}) = 1
    /\ Cardinality(activity_logs) = Cardinality(AcceptedOfType("machine"))

\* Two machine records of PC1 were accepted: one computer, two samples of it.
C3_Witness ==
    /\ Cardinality({i \in AcceptedOfType("machine") :
           NameOf(served.accepted[i]) = "PC1"}) = 2
    /\ \E c \in computers :
          /\ c.netbios_name = "PC1"
          /\ Cardinality({l \in activity_logs : l.computer_id = c.id}) = 2

C4_Step ==
    (/\ Served
     /\ HasType(served'.data, "application")
     /\ WellFormed(served'.data)
     /\ ~Known(NameOf(served'.data)))
    => /\ UNCHANGED <<computers, activity_logs, application_usage_logs>>
       /\ served'.status # 200
       /\ served'.fault # "connect" => served'.status = 404

\* C4: a well-formed application record whose netbios_name has no row in
\* computers leaves the three tables as they were and is answered 404 (500
\* when the collector cannot connect to its database at all).
C4_ReferentialRejection == [][C4_Step]_vars

\* An application record of a name without a row was answered 404.
C4_Witness ==
    /\ served.status = 404
    /\ HasType(served.data, "application")
    /\ ~Known(NameOf(served.data))
    /\ application_usage_logs = {}

C5_Step ==
    (/\ Served
     /\ HasType(served'.data, "machine")
     /\ WellFormed(served'.data) /\ HasIp(served'.data)
     /\ served'.fault = "none"
     /\ ~Known(NameOf(served'.data)))
    => /\ served'.status = 200
       /\ \E c \in computers' :
             /\ c \notin computers
             /\ computers' = computers \cup {c}
             /\ c.netbios_name = NameOf(served'.data)
             /\ c.ip_address = Strip(UnStr(served'.data.ip_address))
             /\ c.os_name = StrOrNone(Get(served'.data, "os_name"))
             /\ c.os_version = StrOrNone(Get(served'.data, "os_version"))
             /\ c.last_seen # NoneVal
             /\ JStr(IsoFormat(c.last_seen)) = served'.data.timestamp
             /\ \E l \in activity_logs' :
                   /\ l \notin activity_logs
                   /\ activity_logs' = activity_logs \cup {l}
                   /\ l.computer_id = c.id

\* C5: a well-formed machine record of a name without a row, served without
\* a database failure, is answered 200, adds exactly one row to computers
\* (the record's name, ip_address, os_name, os_version, and last_seen = the
\* record's timestamp) and exactly one row to activity_logs, which refers
\* to the new computer.
C5_NewComputer == [][C5_Step]_vars

\* PC2 was created by its first machine record, next to another computer.
C5_Witness ==
    /\ served.status = 200
    /\ HasType(served.data, "machine")
    /\ Cardinality(AcceptedOfType("machine")) = 1
    /\ \E c \in computers :
          /\ c.netbios_name = "PC2" /\ c.netbios_name = NameOf(served.data)
          /\ c.ip_address = "10.0.0.6" /\ c.os_name = "Windows"
          /\ c.last_seen = 60
          /\ \E l \in activity_logs : l.computer_id = c.id
    /\ Cardinality(computers) >= 2

\* ------------------------------------------------------------ the dashboard
\* The alerts of a type for a computer in the last render.
AlertsFor(name, type) ==
    {i \in DOMAIN render.alerts :
        /\ render.alerts[i].netbios_name = name
        /\ render.alerts[i].alert_type = type}

\* C6: in every render, each computer has exactly one Offline alert when its
\* last_seen is NULL or more than 30 minutes before the render, and none
\* otherwise; in particular none at exactly 30 minutes.
C6_OfflineAlert ==
    render.rendered =>
        /\ \A c \in computers :
              Cardinality(AlertsFor(c.netbios_name, "Offline")) =
                  (IF c.last_seen = NoneVal \/ render.now - c.last_seen > 30 * 60
                   THEN 1 ELSE 0)
        /\ \A i \in DOMAIN render.alerts : Known(render.alerts[i].netbios_name)

\* One computer seen 31 minutes ago has its alert; another, seen exactly 30
\* minutes ago, has none.
C6_Witness ==
    /\ render.rendered
    /\ \E c1, c2 \in computers :
          /\ c1.last_seen # NoneVal /\ render.now - c1.last_seen = 31 * 60
          /\ Cardinality(AlertsFor(c1.netbios_name, "Offline")) = 1
          /\ c2.last_seen # NoneVal /\ render.now - c2.last_seen = 30 * 60
          /\ AlertsFor(c2.netbios_name, "Offline") = {}

\* The samples of a computer than which it has none with a later timestamp.
MostRecent(c) ==
    LET mine == {l \in activity_logs : l.computer_id = c.id}
    IN  {l \in mine : \A m \in mine : m.timestamp <= l.timestamp}

\* C7: in every render, the sample a computer is judged by is one of its
\* most recent ones (none when it has no sample); the computer has one High
\* CPU Usage (High GPU Usage) alert when that sample's cpu (gpu) value is not
\* NULL and greater than 90.0, and none otherwise, whatever older samples hold.
C7_HighUsageAlert ==
    render.rendered =>
        \A c \in computers :
            LET judged == render.latest[c.id]
                expected(usage) ==
                    IF judged # <<>> /\ usage # NoneVal /\ usage > 90000
                    THEN 1 ELSE 0
            IN  /\ (judged = <<>>) <=> (MostRecent(c) = {})
                /\ judged # <<>> => judged[1] \in MostRecent(c)
                /\ Cardinality(AlertsFor(c.netbios_name, "High CPU Usage")) =
                       expected(IF judged = <<>> THEN NoneVal
                                ELSE judged[1].cpu_usage_percent)
                /\ Cardinality(AlertsFor(c.netbios_name, "High GPU Usage")) =
                       expected(IF judged = <<>> THEN NoneVal
                                ELSE judged[1].gpu_usage_percent)

\* A computer whose older sample is above 90.0 and whose most recent one has
\* no value: the render shows no High CPU Usage alert for it.
C7_Witness ==
    /\ render.rendered
    /\ \E c \in computers :
          /\ \E l \in activity_logs :
                /\ l.computer_id = c.id /\ l.cpu_usage_percent = 95500
                /\ l \notin MostRecent(c)
          /\ \A l \in MostRecent(c) : l.cpu_usage_percent = NoneVal
          /\ AlertsFor(c.netbios_name, "High CPU Usage") = {}

\* --------------------------------------------- agent, collector, dashboard
\* The machine record of the current tick was sent and accepted.
MachineDelivered ==
    \E i \in MachineEventsOfTick :
        events[i].kind = "post" /\ events[i].delivered
\* The rows the dashboard judged the agent's computer by: the samples stamped
\* by the current tick.
JudgedByThisTick ==
    {render.latest[c.id][1] :
        c \in {x \in computers :
                  /\ x.netbios_name = Hostname
                  /\ render.latest[x.id] # <<>>
                  /\ render.latest[x.id][1].timestamp = current_time}}

\* C8: when the machine record of the tick was delivered and accepted and the
\* dashboard judged the agent's computer by it, then for raw CPU reading v and
\* agent threshold Ta: if v > Ta the sample holds round(v, 1) and, when that
\* value is above 90.0, the dashboard has exactly one High CPU Usage alert
\* for the computer, reading "CPU at <round(v, 1)>% on <the sample's time>";
\* if v is absent or v <= Ta the sample holds NULL and there is no High CPU
\* Usage alert for the computer, also when v is above 90.0.
C8_EndToEnd ==
    (render.rendered /\ MachineDelivered /\ JudgedByThisTick # {}) =>
        LET v  == readings.cpu_val
            Ta == app_config.cpu_alert_threshold
            high == AlertsFor(Hostname, "High CPU Usage")
        IN  IF v # NoneVal /\ v > Ta * 1000
            THEN /\ \A l \in JudgedByThisTick :
                       l.cpu_usage_percent = PyRound(v, 1)
                 /\ Cardinality(high) = IF PyRound(v, 1) > 90000 THEN 1 ELSE 0
                 /\ \A i \in high :
                       render.alerts[i].details =
                           "CPU at " \o FloatRepr(PyRound(v, 1)) \o "% on "
                               \o strftime(current_time)
            ELSE /\ \A l \in JudgedByThisTick : l.cpu_usage_percent = NoneVal
                 /\ high = {}

\* The agent with threshold 90 read 95.5; the dashboard shows "CPU at 95.5%".
C8_Witness ==
    /\ render.rendered /\ MachineDelivered /\ JudgedByThisTick # {}
    /\ readings.cpu_val = 95500
    /\ app_config.cpu_alert_threshold = 90
    /\ \E i \in AlertsFor(Hostname, "High CPU Usage") :
          render.alerts[i].details = "CPU at 95.5% on " \o strftime(current_time)

\* ------------------------------------------------------------ the agent loop
\* C9: the loop is left only by a signal from outside, and whatever fails
\* inside an iteration, the next iteration starts (or the process is
\* signalled), for every iteration the model follows.
C9_LoopSurvivesFailures ==
    /\ [](pc = "terminated" => signalled)
    /\ \A k \in 1..MaxTicks :
          (tick = k /\ ~signalled) ~> (tick = k + 1 \/ signalled)

\* An iteration ended in the loop's handler and the next one is about to start.
C9_Witness ==
    /\ pc = "top" /\ tick = 2 /\ ~signalled
    /\ \E i \in DOMAIN events :
          /\ events[i].kind = "sleep" /\ events[i].secs = 60
          /\ events[i].tick = 1

PostEvents == {i \in DOMAIN events : events[i].kind = "post"}
\* The seconds slept after event i.
RECURSIVE SleptFrom(_)
SleptFrom(i) ==
    IF i > Len(events) THEN 0
    ELSE (IF events[i].kind = "sleep" THEN events[i].secs ELSE 0)
         + SleptFrom(i + 1)

\* C10: no record is posted twice, in the same iteration or in a later one,
\* and every record posted carries the instant of the iteration that posts it
\* (none is kept back for a later iteration).
C10_AtMostOnce ==
    /\ \A i, j \in PostEvents : events[i].body = events[j].body => i = j
    /\ \A i \in PostEvents :
          events[i].body.timestamp = JStr(IsoFormat(now - SleptFrom(i)))

\* The machine record of iteration 1 failed to send; iteration 2 has sent its
\* own two records and nothing else.
C10_Witness ==
    /\ tick = 2 /\ pc = "sleep"
    /\ \E i \in PostEvents :
          /\ events[i].tick = 1 /\ ~events[i].delivered
          /\ HasType(events[i].body, "machine")
    /\ Cardinality({i \in PostEvents : events[i].tick = 2}) = 2

\* ------------------------------------------------------ the ingestion route
Tables == <<computers, activity_logs, application_usage_logs>>
Timestamp(data) == fromisoformat(UnStr(data.timestamp))
\* The write of the served request is in the store.
WriteVisible(data) ==
    CASE HasType(data, "machine") ->
           \E c \in computers' : \E l \in activity_logs' \ activity_logs :
               /\ c.netbios_name = NameOf(data) /\ l.computer_id = c.id
               /\ l.timestamp = Timestamp(data)
               /\ c.last_seen = Timestamp(data)
      [] HasType(data, "application") ->
           \E c \in computers' :
               \E l \in application_usage_logs' \ application_usage_logs :
                   /\ c.netbios_name = NameOf(data) /\ l.computer_id = c.id
                   /\ l.timestamp = Timestamp(data)
      [] HasType(data, "ping") ->
           \E c \in computers' :
               /\ c.netbios_name = NameOf(data)
               /\ c.last_seen = Timestamp(data)
      [] OTHER -> FALSE

C11_Step ==
    Served =>
        /\ served'.status # 200 => UNCHANGED Tables
        /\ served'.status = 200 => WriteVisible(served'.data)

\* C11: a request that is not answered 200 leaves the three tables as they
\* were, also when the database fails after the computer was inserted or
\* updated; a request answered 200 has its writes in the store.
C11_AllOrNothing == [][C11_Step]_vars

\* The sample insert of a machine record of a new computer failed: the id of
\* the computer was used, its row is not there.
C11_Witness ==
    /\ served.status = 500 /\ served.fault = "execute"
    /\ HasType(served.data, "machine")
    /\ ~Known(NameOf(served.data))
    /\ auto_increment.computers > Cardinality(computers) + 1
    /\ activity_logs = {}

\* A body the shared validation turns away.
Malformed(data) ==
    \/ DOMAIN data = {}
    \/ "log_type" \notin DOMAIN data
    \/ ~WellFormed(data)

C12_Step ==
    (Served /\ Malformed(served'.data)) =>
        /\ served'.status = 400
        /\ UNCHANGED <<computers, activity_logs, application_usage_logs,
                       auto_increment>>

BadTypeOrAddress(data) ==
    /\ ~Malformed(data)
    /\ \/ ~(\E t \in {"machine", "application", "ping"} : HasType(data, t))
       \/ (HasType(data, "machine") \/ HasType(data, "ping")) /\ ~HasIp(data)
\* A record the route accepts when the database works.
Valid(data) ==
    /\ ~Malformed(data)
    /\ \/ HasType(data, "application")
       \/ (HasType(data, "machine") \/ HasType(data, "ping")) /\ HasIp(data)

C13_Step ==
    Served =>
        /\ BadTypeOrAddress(served'.data) =>
              served'.status = 400 /\ UNCHANGED Tables
        /\ served'.status = 404 =>
              /\ HasType(served'.data, "application")
              /\ ~Known(NameOf(served'.data))
        /\ served'.status = 500 =>
              Valid(served'.data) /\ served'.fault # "none"

\* C13 (as claimed): whatever the database does, a record of an unknown
\* log_type and a machine or ping record without ip_address are answered 400
\* and persist nothing; 404 is only the answer to an application record of an
\* unknown computer; 500 only that to a valid record the database failed on.
C13_StatusMapping == [][C13_Step]_vars

C14_Step ==
    \A c \in computers : \A d \in computers' :
        c.id = d.id => c.last_seen <= d.last_seen

\* C14 (as claimed): no request moves the last_seen of a computer backwards.
C14_LastSeenMonotonic == [][C14_Step]_vars

\* An accepted ping of the name, somewhere before the request being served.
PingedBefore(name) ==
    \E i \in DOMAIN served.accepted :
        /\ HasType(served.accepted[i], "ping")
        /\ NameOf(served.accepted[i]) = name

C15_Step ==
    (Served /\ ~Malformed(served'.data) /\ served'.fault = "none") =>
        LET data == served'.data
            name == NameOf(data)
        IN  /\ (HasType(data, "ping") /\ HasIp(data)) =>
                /\ served'.status = 200
                /\ \E c \in computers' :
                      /\ c.netbios_name = name
                      /\ c.ip_address = Strip(UnStr(data.ip_address))
                      /\ c.last_seen = Timestamp(data)
                      /\ IF Known(name)
                         THEN \E b \in computers :
                                 /\ b.netbios_name = name
                                 /\ computers' = (computers \ {b}) \cup {c}
                         ELSE /\ c.os_name = NoneStr /\ c.os_version = NoneStr
                              /\ c \notin computers
                              /\ computers' = computers \cup {c}
            /\ (HasType(data, "application") /\ PingedBefore(name)) =>
                served'.status = 200

\* C15: served without a database failure, a ping with an ip_address is
\* answered 200; it creates the computer when the name is unknown (os_name and
\* os_version NULL) and otherwise updates that computer's ip_address and
\* last_seen; an application record of a name that was pinged before is
\* answered 200.
C15_PingEstablishesIdentity == [][C15_Step]_vars

\* PC2 is known from a ping only, and its application record was accepted.
C15_Witness ==
    /\ served.status = 200 /\ HasType(served.data, "application")
    /\ AcceptedOfType("machine") = {}
    /\ PingedBefore(NameOf(served.data))
    /\ \E c \in computers :
          /\ c.netbios_name = NameOf(served.data) /\ c.os_name = NoneStr
          /\ \E l \in application_usage_logs : l.computer_id = c.id

\* ------------------------------------------------------- the local log
AppendEvents == {i \in DOMAIN events : events[i].kind = "append"}
\* The calendar day (yymmdd) of the timestamp a logged record carries.
DayOfRecord(line) == DayStr(fromisoformat(UnStr(line.timestamp)))

\* C16: every record appended (machine, application, ping_status) goes to
\* <log_folder>/<yymmdd of the record's timestamp>Log_Usage_Windows.log; so
\* two records go to the same file exactly when their timestamps are of the
\* same day.
C16_LogPathByDay ==
    /\ \A i \in AppendEvents :
          events[i].path = app_config.log_folder \o "/"
              \o DayOfRecord(events[i].line) \o "Log_Usage_Windows.log"
    /\ \A i, j \in AppendEvents :
          (events[i].path = events[j].path)
              <=> (DayOfRecord(events[i].line) = DayOfRecord(events[j].line))

\* Midnight passed between two ticks: the records of the first are in one
\* file, those of the second in the next day's, and each file has records of
\* more than one kind.
C16_Witness ==
    \E i, j, k, l \in AppendEvents :
        /\ i < j /\ j < k /\ k < l
        /\ events[i].path = events[j].path
        /\ events[k].path = events[l].path
        /\ events[j].path # events[k].path
        /\ "event_type" \in DOMAIN events[i].line
        /\ HasType(events[j].line, "machine")
        /\ HasType(events[l].line, "application")

\* ------------------------------------------------------ the retention task
CleanupEvents == {i \in DOMAIN events : events[i].kind = "cleanup"}
\* The files of a listing named <yymmdd>Log_Usage_Windows.log whose day is
\* more than r days before today.
OlderThan(listing, today, r) ==
    {f \in listing : \E d \in FileDays : f = Dated(d) /\ today - d > r}

\* C17: with retention_days = R >= 0 the cleanup removes only files named
\* <yymmdd>Log_Usage_Windows.log dated more than R days before today and
\* creates none; when the folder can be listed and every removal succeeds it
\* removes all of them.  A file aged R days or less, a name with an
\* unparsable prefix and a name off the pattern stay.
C17_RetentionCutoff ==
    \A i \in CleanupEvents :
        LET e == events[i]
            expired == OlderThan(e.before, e.today, e.retention_days)
        IN  e.retention_days >= 0 =>
              /\ e.after \subseteq e.before
              /\ (e.before \ e.after) \subseteq expired
              /\ (e.fault = "none" /\ e.locked = {}
                    => e.before \ e.after = expired)
              /\ (e.fault = "none" => e.before \ e.after = expired \ e.locked)

\* retention_days = 14 on day 20: the file dated day 0 (20 days old) and the
\* one dated day 5 are removed; those dated day 6 (14 days old) and day 15
\* (5 days old), today's, tomorrow's and the stray names are all kept.
C17_Witness ==
    \E i \in CleanupEvents :
        /\ events[i].retention_days = 14
        /\ events[i].today = 20
        /\ events[i].before \ events[i].after = {Dated(0), Dated(5)}
        /\ {Dated(6), Dated(15), Dated(20), Dated(21)} \cup StrayNames
               \subseteq events[i].after

\* C18: with retention_days < 0 the startup cleanup removes no file, fails
\* in nothing, and main() goes on into its loop.
C18_Step ==
    (pc = "startup" /\ app_config.log_retention_days < 0 /\ ~signalled')
        => /\ log_files' = log_files
           /\ faults' = faults
           /\ pc' = "top"
C18_NegativeRetentionNoOp == [][C18_Step]_vars

\* retention_days = -1, a 20-day-old file in the folder: it is still there
\* when the first tick writes its records.
C18_Witness ==
    /\ app_config.log_retention_days < 0
    /\ Dated(0) \in log_files
    /\ pc = "machine_send"
    /\ \E i \in CleanupEvents : events[i].before = events[i].after
    /\ AppendEvents # {}

\* C19: cleanup_old_logs runs once, before anything the loop does, and not
\* again; once the loop is entered no file leaves the log folder.
C19_Once ==
    /\ Cardinality(CleanupEvents) <= 1
    /\ events # <<>> => events[1].kind = "cleanup"
    /\ pc \notin {"startup", "terminated"} => CleanupEvents = {1}
C19_Step == pc # "startup" => log_files \subseteq log_files'
C19_CleanupOnlyAtStartup == []C19_Once /\ [][C19_Step]_vars

\* After the first tick and its sleep: the cleanup removed a file, left one
\* it could not remove although it is past the retention period, and the
\* tick added today's file; no second cleanup took the old file away.
C19_Witness ==
    /\ pc = "top" /\ tick = 2
    /\ events[1].kind = "cleanup"
    /\ events[1].before \ events[1].after # {}
    /\ events[1].locked # {}
    /\ events[1].locked \subseteq log_files
    /\ events[1].locked \subseteq
           OlderThan(events[1].before, events[1].today,
                     events[1].retention_days)
    /\ Dated(20) \in log_files \ events[1].after

\* ------------------------------------------------------ the ping schedule
IsPingStatus(e) == e.kind = "append" /\ "event_type" \in DOMAIN e.line
IsPingPost(e) == e.kind = "post" /\ HasType(e.body, "ping")
\* The ping attempts so far: each one leaves a ping_status line, appended or not.
PingAttempts == {i \in DOMAIN events : IsPingStatus(events[i])}
AttemptTime(i) == fromisoformat(UnStr(events[i].line.timestamp))

\* C20, the scheduling step of a tick: a ping is attempted only when none was
\* attempted before or ping_interval_seconds have gone by since the last
\* attempt, and then the clock is set to this tick's instant whatever the
\* outcome; a tick without an attempt leaves the clock alone, and it is
\* without one only if the ping is not due or the scheduling block failed.
C20_Step ==
    (pc = "top" /\ pc' = "collect") =>
        LET due == \/ last_ping_time = NoneVal
                   \/ now - last_ping_time >= app_config.ping_interval_seconds
            added == SubSeq(events', Len(events) + 1, Len(events'))
            attempts == {i \in DOMAIN added : IsPingStatus(added[i])}
            posts == {i \in DOMAIN added : IsPingPost(added[i])}
        IN  /\ tick = 1 => due
            /\ Cardinality(attempts) <= 1
            /\ Cardinality(posts) <= Cardinality(attempts)
            /\ attempts # {} => due /\ last_ping_time' = now
            /\ attempts = {} =>
                  /\ last_ping_time' = last_ping_time
                  /\ ~due \/ faults' = faults + 1
\* C20, the attempts of a process: at most one per tick, two of them never
\* closer than ping_interval_seconds, the clock standing at the last one.
C20_Spacing ==
    /\ \A i, j \in PingAttempts :
          i < j => /\ events[i].tick < events[j].tick
                   /\ AttemptTime(j) - AttemptTime(i)
                          >= app_config.ping_interval_seconds
    /\ last_ping_time =
          IF PingAttempts = {} THEN NoneVal
          ELSE AttemptTime(CHOOSE i \in PingAttempts :
                               \A j \in PingAttempts : j <= i)
\* C20: ping scheduling.
C20_PingSchedule == []C20_Spacing /\ [][C20_Step]_vars

\* The first tick's ping was not delivered; the second tick, exactly
\* ping_interval_seconds later, pinged again.
C20_Witness ==
    \E i, j \in PingAttempts :
        /\ events[i].tick = 1 /\ events[j].tick = 2
        /\ events[i].line.status = JStr("false")
        /\ AttemptTime(j) - AttemptTime(i) = app_config.ping_interval_seconds
        /\ \E k \in DOMAIN events : IsPingPost(events[k]) /\ events[k].tick = 2

\* ------------------------------------------------------ the ping's outcome
\* What a step added to the history.
Added == SubSeq(events', Len(events) + 1, Len(events'))
\* The step is the ping block making an attempt: it moves the ping clock.
PingAttempted ==
    pc = "top" /\ pc' = "collect" /\ last_ping_time' # last_ping_time

\* C21: a ping attempt makes exactly one append, of a ping_status line stamped
\* with the attempt's instant, and posts at most one ping; the line says "ok"
\* exactly when a ping was posted and the collector answered with success,
\* and "false" otherwise.
C21_Step ==
    PingAttempted =>
        LET statuses == {i \in DOMAIN Added : IsPingStatus(Added[i])}
            posts == {i \in DOMAIN Added : Added[i].kind = "post"}
            delivered == \E k \in posts : Added[k].delivered
        IN  /\ Cardinality(statuses) = 1
            /\ Cardinality(posts) <= 1
            /\ \A k \in posts : IsPingPost(Added[k])
            /\ \A i \in DOMAIN Added : Added[i].kind = "append" => i \in statuses
            /\ \A i \in statuses :
                  /\ Added[i].line.timestamp = JStr(IsoFormat(now))
                  /\ Added[i].line.status =
                         IF delivered THEN JStr("ok") ELSE JStr("false")
C21_PingStatusLogged == [][C21_Step]_vars

\* With a server configured: a ping that could not be serialized was logged
\* "false" with nothing posted, and one the collector accepted was logged
\* "ok".
C21_Witness ==
    /\ SendEnabled
    /\ \E i, j \in PingAttempts :
          /\ events[i].line.status = JStr("false")
          /\ ~\E k \in DOMAIN events :
                 IsPingPost(events[k]) /\ events[k].tick = events[i].tick
          /\ events[j].line.status = JStr("ok")
          /\ \E k \in DOMAIN events :
                 /\ IsPingPost(events[k]) /\ events[k].tick = events[j].tick
                 /\ events[k].delivered

\* ------------------------------------------------ the agent without a server
AppendedInTick(type, k) ==
    \E i \in AppendEvents : events[i].tick = k /\ HasType(events[i].line, type)

\* C22: without a server address, or without the requests module, nothing is
\* ever posted; every ping attempt is logged "false"; and a tick still
\* appends the machine and the application record it serialized.
C22_NoNetworkWithoutServer ==
    (app_config.server_address = NoAddress \/ ~requests_available) =>
        /\ PostEvents = {}
        /\ \A i \in PingAttempts : events[i].line.status = JStr("false")
        /\ (pc \in {"machine_send", "app_log", "app_send", "sleep"}
              /\ json_machine_data_for_log # <<>>)
               => AppendedInTick("machine", tick)
        /\ (pc \in {"app_send", "sleep"} /\ json_app_data_for_log # <<>>)
               => AppendedInTick("application", tick)

\* No address configured, second tick at its end: both ticks appended their
\* machine and application records, the first tick's ping was logged "false".
C22_Witness ==
    /\ app_config.server_address = NoAddress
    /\ pc = "sleep" /\ tick = 2
    /\ \A k \in 1 .. 2 :
          AppendedInTick("machine", k) /\ AppendedInTick("application", k)
    /\ \E i \in PingAttempts : events[i].tick = 1

\* ------------------------------------------------------ the sample task
PostedInTick(type, k) ==
    \E i \in PostEvents : events[i].tick = k /\ HasType(events[i].body, type)
\* The step added exactly one event, of this kind, carrying this record.
AddedOne(kind, rec) ==
    /\ Len(Added) = 1
    /\ Added[1].kind = kind
    /\ RecordOf(Added[1]) = rec

\* C23, step by step: a record that was serialized is appended and the tick
\* goes on to its send whether or not the append succeeded; with a server,
\* the send is made and the tick goes on to the next record (or to its
\* sleep) whether or not the send succeeded.
C23_Step ==
    ~signalled' =>
      /\ (pc = "machine_log" /\ json_machine_data_for_log' # <<>>)
            => /\ AddedOne("append", json_machine_data_for_log'[1])
               /\ pc' = "machine_send"
      /\ (pc = "machine_send" /\ SendEnabled /\ json_machine_data_for_log # <<>>)
            => /\ AddedOne("post", json_machine_data_for_log[1])
               /\ pc' = "app_log"
      /\ (pc = "app_log" /\ json_app_data_for_log' # <<>>)
            => /\ AddedOne("append", json_app_data_for_log'[1])
               /\ pc' = "app_send"
      /\ (pc = "app_send" /\ SendEnabled /\ json_app_data_for_log # <<>>)
            => /\ AddedOne("post", json_app_data_for_log[1])
               /\ pc' = "sleep"
\* C23, at the end of a tick: with a server, each record that was serialized
\* has been appended and posted in this tick.
C23_AtSleep ==
    (pc = "sleep" /\ SendEnabled) =>
        /\ json_machine_data_for_log # <<>>
              => AppendedInTick("machine", tick) /\ PostedInTick("machine", tick)
        /\ json_app_data_for_log # <<>>
              => AppendedInTick("application", tick)
                     /\ PostedInTick("application", tick)
\* C23: failures of the appends and sends of a tick do not stop one another.
C23_IndependentFailures == []C23_AtSleep /\ [][C23_Step]_vars

\* The machine record's append failed and so did its send; the application
\* record of the same tick was nevertheless appended and delivered.
C23_Witness ==
    /\ pc = "sleep"
    /\ \E a, b, c, d \in DOMAIN events :
          /\ a < b /\ b < c /\ c < d
          /\ \A i \in {a, b, c, d} : events[i].tick = tick
          /\ events[a].kind = "append" /\ HasType(events[a].line, "machine")
          /\ ~events[a].ok
          /\ events[b].kind = "post" /\ HasType(events[b].body, "machine")
          /\ ~events[b].delivered
          /\ events[c].kind = "append" /\ HasType(events[c].line, "application")
          /\ events[c].ok
          /\ events[d].kind = "post" /\ HasType(events[d].body, "application")
          /\ events[d].delivered

IsSample(rec) == HasType(rec, "machine") \/ HasType(rec, "application")

\* C24: within a tick, the machine record and the application record are both
\* appended to the local log before either of them is posted.
C24_AppendsBeforeSends ==
    \A i \in PostEvents, j \in AppendEvents :
        (/\ events[i].tick = events[j].tick
         /\ IsSample(events[i].body)
         /\ IsSample(events[j].line)) => j < i

\* C25, step by step: a record json.dumps refuses with TypeError is dropped;
\* nothing is appended or posted for it and the tick goes on with the next
\* thing it has to do, not with the error pause.
C25_Step ==
    ~signalled' =>
      /\ (pc = "machine_log" /\ pc' # "except" /\ json_machine_data_for_log' = <<>>)
            => events' = events /\ pc' = "machine_send"
      /\ (pc = "machine_send" /\ json_machine_data_for_log = <<>>)
            => events' = events /\ pc' = "app_log"
      /\ (pc = "app_log" /\ pc' # "except" /\ json_app_data_for_log' = <<>>)
            => events' = events /\ pc' = "app_send"
      /\ (pc = "app_send" /\ json_app_data_for_log = <<>>)
            => events' = events /\ pc' = "sleep"
\* C25, at the end of a tick: a dropped record was neither appended nor
\* posted in this tick; the other one was appended and, with a server, posted.
C25_AtSleep ==
    pc = "sleep" =>
        /\ json_machine_data_for_log = <<>>
              => ~AppendedInTick("machine", tick) /\ ~PostedInTick("machine", tick)
        /\ json_app_data_for_log = <<>>
              => /\ ~AppendedInTick("application", tick)
                 /\ ~PostedInTick("application", tick)
        /\ json_machine_data_for_log # <<>>
              => /\ AppendedInTick("machine", tick)
                 /\ SendEnabled => PostedInTick("machine", tick)
        /\ json_app_data_for_log # <<>>
              => /\ AppendedInTick("application", tick)
                 /\ SendEnabled => PostedInTick("application", tick)
\* C25: a record that cannot be serialized is dropped alone.
C25_SerializationIsolated == []C25_AtSleep /\ [][C25_Step]_vars

\* With a server, at the end of the second tick: the first tick dropped its
\* machine record and appended and posted the application record; the second
\* dropped its application record and appended and posted the machine record.
C25_Witness ==
    /\ SendEnabled /\ pc = "sleep" /\ tick = 2
    /\ ~AppendedInTick("machine", 1) /\ ~PostedInTick("machine", 1)
    /\ AppendedInTick("application", 1) /\ PostedInTick("application", 1)
    /\ AppendedInTick("machine", 2) /\ PostedInTick("machine", 2)
    /\ ~AppendedInTick("application", 2) /\ ~PostedInTick("application", 2)
    /\ \A i \in DOMAIN events : events[i].kind = "sleep" => events[i].secs = 30

\* ------------------------------------------------- concurrent requests
\* C26: machine requests served side by side lose nothing: where only
\* machine records have been accepted, each well-formed machine request that
\* meets no database failure is answered 200 and adds its sample, and its
\* name has exactly one row of computers afterwards.
C26_Step ==
    (/\ Served
     /\ HasType(served'.data, "machine") /\ Valid(served'.data)
     /\ served'.fault = "none"
     /\ \A i \in DOMAIN served.accepted : HasType(served.accepted[i], "machine"))
    => /\ served'.status = 200
       /\ Cardinality(activity_logs') = Cardinality(activity_logs) + 1
       /\ Cardinality({c \in computers' :
              c.netbios_name = NameOf(served'.data)}) = 1
C26_ConcurrentReportsAccepted == [][C26_Step]_vars

\* C27: in every state, whatever requests were served and however they
\* overlapped, each row of activity_logs and of application_usage_logs refers
\* to a row of computers, and no two rows of computers share a netbios_name
\* or an id.
C27_ReferentialIntegrity ==
    /\ \A l \in activity_logs \cup application_usage_logs :
          \E c \in computers : c.id = l.computer_id
    /\ \A c1, c2 \in computers :
          (c1.netbios_name = c2.netbios_name \/ c1.id = c2.id) => c1 = c2

\* From an empty store, with no database failure: two requests that both
\* found no row for their name were in flight together, the second to finish
\* was turned away, and an application record filed afterwards refers to the
\* one computer there is.
C27_Witness ==
    /\ db_faults = 0
    /\ served.count = 3 /\ Len(served.accepted) = 2
    /\ HasType(served.data, "application") /\ served.status = 200
    /\ Cardinality(computers) = 1
    /\ Cardinality(activity_logs) = 1
    /\ Cardinality(application_usage_logs) = 1

\* ------------------------------------------------------ the configuration
\* The documented defaults.
Documented ==
    [server_address |-> NoAddress, cpu_alert_threshold |-> 90,
     gpu_alert_threshold |-> 90, log_folder |-> ".",
     disk_space_alert_threshold_gb |-> 20, ping_interval_seconds |-> 60,
     log_retention_days |-> 14]
Written(section, option) ==
    section \in DOMAIN config_ini.sections
        /\ option \in DOMAIN config_ini.sections[section]
ValueWritten(section, option) == config_ini.sections[section][option]
\* Reading the file fails: it cannot be parsed, or an option that has to be
\* an integer is written as something else.
ReadingFails ==
    \/ config_ini.parse_error
    \/ \E o \in IntOptions :
          /\ Written("agent_settings", o)
          /\ \A n \in IntRange : ToString(n) # ValueWritten("agent_settings", o)

\* C28: once load_app_config has returned, app_config is: the documented
\* defaults when config.ini is absent; the documented defaults when reading
\* it fails, whatever was read before; and otherwise, option by option, the
\* value written in the file, or the default of an option that is not.
C28_LoadConfig ==
    DOMAIN app_config # {} =>
        /\ (~config_ini.exists \/ ReadingFails) => app_config = Documented
        /\ (config_ini.exists /\ ~ReadingFails) =>
              /\ app_config.server_address =
                     IF Written("server", "address")
                     THEN ValueWritten("server", "address")
                     ELSE Documented.server_address
              /\ app_config.log_folder =
                     IF Written("agent_settings", "log_folder")
                     THEN ValueWritten("agent_settings", "log_folder")
                     ELSE Documented.log_folder
              /\ \A o \in IntOptions :
                    IF Written("agent_settings", o)
                    THEN ToString(app_config[o])
                             = ValueWritten("agent_settings", o)
                    ELSE app_config[o] = Documented[o]

\* The file gives the server's address and a CPU threshold of 75, and a GPU
\* threshold that is no integer: the agent runs with no server address and
\* the default thresholds.
C28_Witness ==
    /\ pc = "top"
    /\ Written("server", "address")
    /\ ValueWritten("server", "address") = ServerAddress
    /\ Written("agent_settings", "cpu_alert_threshold")
    /\ ValueWritten("agent_settings", "cpu_alert_threshold") = "75"
    /\ ReadingFails /\ ~config_ini.parse_error
    /\ app_config.server_address = NoAddress
    /\ app_config.cpu_alert_threshold = 90

\* ---------------------------------------------------------------- C29
\* A request to the group API was answered in this step.
GroupAnswered(route) ==
    /\ group_api'.count = group_api.count + 1
    /\ group_api'.route = route
\* The body carries a name that is a string and not blank.
HasGroupName(data) ==
    /\ "name" \in DOMAIN data
    /\ IsStrToken(data.name)
    /\ Strip(UnStr(data.name)) # ""
\* The body carries no name, or a blank one.
NameMissingOrBlank(data) ==
    \/ "name" \notin DOMAIN data
    \/ IsStrToken(data.name) /\ Strip(UnStr(data.name)) = ""
NameInUse(data) ==
    \E g \in computer_groups : g.name = Strip(UnStr(data.name))
\* One group was added, and it carries the name of the body.
OneGroupAdded(data) ==
    /\ computer_groups \subseteq computer_groups'
    /\ Cardinality(computer_groups' \ computer_groups) = 1
    /\ \A g \in computer_groups' \ computer_groups :
          g.name = Strip(UnStr(data.name))
C29_Step ==
    GroupAnswered("create_group") /\ group_api'.fault = "none" =>
        LET data == group_api'.data
        IN  /\ HasGroupName(data) /\ ~NameInUse(data) =>
                group_api'.status = 201 /\ OneGroupAdded(data)
            /\ HasGroupName(data) /\ NameInUse(data) =>
                /\ group_api'.status = 409
                /\ group_api'.rollback
                /\ computer_groups' = computer_groups
            /\ NameMissingOrBlank(data) =>
                group_api'.status = 400 /\ group_api'.connection = "none"
\* No two groups carry one name.
C29_UniqueNames ==
    \A g, h \in computer_groups : g.name = h.name => g = h
\* C29: with a database that answers, create_group on a non-blank name no
\* group carries adds one group of that name and answers 201; on a name a
\* group carries it answers 409, rolls back and leaves the groups as they
\* were; on a body with no name or a blank one it answers 400 and does not
\* ask for a database connection.  No two groups ever carry one name.
C29_GroupNamesUnique == []C29_UniqueNames /\ [][C29_Step]_vars

\* What remains of C29_Step on bodies whose description is absent or a
\* string.
C29_StepOnStrings ==
    ("description" \in DOMAIN group_api'.data =>
         IsStrToken(group_api'.data.description)) => C29_Step
C29_OnStringDescriptions == []C29_UniqueNames /\ [][C29_StepOnStrings]_vars

\* ---------------------------------------------------------------- C30
\* The computer the request names, before the request.
Named == {c \in computers : c.netbios_name = group_api'.netbios_name}
\* The body names a group one way or the other.
NamesGroup(data) == "group_id" \in DOMAIN data \/ "group_name" \in DOMAIN data
\* group_id is given and is a number that is no positive integer.
NotPositiveInteger(data) ==
    /\ "group_id" \in DOMAIN data
    /\ data.group_id \in IntTokens \cup NumTokens
    /\ ~(data.group_id \in IntTokens /\ py_int(data.group_id).value > 0)
\* group_id is given, a positive integer, and no group's id.
NoSuchGroupId(data) ==
    /\ "group_id" \in DOMAIN data
    /\ data.group_id \in IntTokens
    /\ py_int(data.group_id).value > 0
    /\ ~\E g \in computer_groups : g.id = py_int(data.group_id).value
\* Only group_name is given, and it is a non-blank name no group carries.
NoSuchGroupName(data) ==
    /\ "group_id" \notin DOMAIN data /\ "group_name" \in DOMAIN data
    /\ IsStrToken(data.group_name)
    /\ Strip(UnStr(data.group_name)) # ""
    /\ ~\E g \in computer_groups : g.name = Strip(UnStr(data.group_name))
\* The group the request asks for: group_id when given, else the id of the
\* group called group_name; NoneVal (null) for a null group_id, and for a
\* null or blank group_name.
TargetGroupId(data) ==
    IF "group_id" \in DOMAIN data
    THEN IF data.group_id = JNull THEN NoneVal
         ELSE py_int(data.group_id).value
    ELSE IF data.group_name = JNull \/ Strip(UnStr(data.group_name)) = ""
    THEN NoneVal
    ELSE (CHOOSE g \in computer_groups :
              g.name = Strip(UnStr(data.group_name))).id
\* Nothing but the group_id of the named computer differs after the step.
OnlyGroupIdOfNamed ==
    /\ computer_groups' = computer_groups
    /\ activity_logs' = activity_logs
    /\ application_usage_logs' = application_usage_logs
    /\ \A c \in computers :
          \E d \in computers' :
              /\ d.id = c.id
              /\ [d EXCEPT !.group_id = c.group_id] = c
              /\ c \notin Named => d = c
    /\ Cardinality(computers') = Cardinality(computers)
C30_Step ==
    /\ GroupAnswered("assign_computer_to_group")
    /\ group_api'.fault = "none"
    /\ NamesGroup(group_api'.data)
    => LET data == group_api'.data
       IN  /\ OnlyGroupIdOfNamed
           /\ group_api'.status # 200 => computers' = computers
           /\ Named = {} \/ NoSuchGroupName(data) =>
                  group_api'.status = 404
           /\ Named # {} /\ (NoSuchGroupId(data) \/ NotPositiveInteger(data)) =>
                  group_api'.status = 400
           /\ group_api'.status = 200 =>
                  \A c \in computers' :
                      c.netbios_name = group_api'.netbios_name =>
                          c.group_id = TargetGroupId(data)
\* C30: with a database that answers, assign_computer_to_group answers 404
\* and changes nothing when the computer is unknown or no group carries the
\* given name; answers 400 and changes nothing when the computer is known
\* and the given group_id is no group's id or no positive integer; on 200
\* the computer's group_id is the target group's id, or null for a null
\* group_id and for a null or blank group_name; no other field and no other
\* row differs, and without a 200 no row differs at all.
C30_AssignGroup == [][C30_Step]_vars

\* What remains of C30_Step when group_id is absent, null or a JSON integer.
C30_StepOnIntegers ==
    ("group_id" \in DOMAIN group_api'.data =>
         group_api'.data.group_id \in IntTokens \cup {JNull}) => C30_Step
C30_OnIntegers == [][C30_StepOnIntegers]_vars

\* ---------------------------------------------------------------- C31
Count(seq, x) == Cardinality({i \in 1 .. Len(seq) : seq[i] = x})
\* The last request obtained a connection.
Obtained == db_calls.calls # <<>> /\ db_calls.calls[1] = "get_db_connection"
\* The last request is one its route turns away before the try.
TurnedAwayEarly ==
    \/ db_calls.route = "log_activity" /\ RejectedBeforeConnecting(served.data)
    \/ db_calls.route = "create_group" /\ NameMissingOrBlank(group_api.data)
    \/ db_calls.route = "assign_computer_to_group"
           /\ ~NamesGroup(group_api.data)
\* C31: on every route, a request that obtained a database connection ends
\* with cursor.close() and conn.close(), each called once, whatever its
\* answer; commit is called at most once, only by a request answered 200 or
\* 201 and never together with rollback; a request without a connection
\* closes nothing and commits nothing, and a request turned away before the
\* try does not ask for a connection.
C31_ConnectionLifecycle ==
    LET calls == db_calls.calls
        n     == Len(calls)
    IN  /\ Obtained =>
              /\ Count(calls, "cursor.close") = 1
              /\ Count(calls, "conn.close") = 1
              /\ Count(calls, "get_db_connection") = 1
              /\ calls[n - 1] = "cursor.close" /\ calls[n] = "conn.close"
        /\ ~Obtained =>
              /\ Count(calls, "cursor.close") = 0
              /\ Count(calls, "conn.close") = 0
              /\ Count(calls, "commit") = 0
        /\ Count(calls, "commit") <= 1
        /\ Count(calls, "commit") = 1 =>
              /\ db_calls.status \in {200, 201}
              /\ Count(calls, "rollback") = 0
        /\ TurnedAwayEarly => calls = <<>>
\* An application record of a computer nobody registered: 404 after a
\* rollback, cursor and connection closed.
C31_Witness ==
    /\ db_calls.route = "log_activity"
    /\ db_calls.status = 404
    /\ db_calls.calls = <<"get_db_connection", "cursor", "rollback",
                          "cursor.close", "conn.close">>

\* ---------------------------------------------------------------- C39
\* The dashboard was rendered in this step over a store that failed.
RenderedOverFailure ==
    db_calls'.route = "dashboard_page" /\ db_faults' = db_faults + 1
IsPrefix(a, b) == Len(a) <= Len(b) /\ SubSeq(b, 1, Len(a)) = a
\* What the page would list had no query failed.
AllAlerts(r) ==
    AlertsOfRows(SELECT_COMPUTERS_FOR_DASHBOARD(computers), r.latest, r.now)
C39_Step ==
    RenderedOverFailure =>
        /\ render'.rendered
        /\ render'.error_message # NoneStr
        /\ db_calls'.calls[1] = "get_db_connection" =>
               db_calls'.calls[Len(db_calls'.calls)] = "conn.close"
        /\ db_calls'.calls[1] # "get_db_connection" => render'.alerts = <<>>
        /\ render'.now = NoneVal => render'.alerts = <<>>
        /\ render'.now # NoneVal => IsPrefix(render'.alerts, AllAlerts(render'))
        /\ UNCHANGED <<computers, activity_logs, application_usage_logs,
                       computer_groups>>
\* C39: when get_db_connection returns None or a query of dashboard_page
\* raises, the page is rendered all the same, with an error message; a
\* connection that was obtained is closed; the alerts shown are the ones
\* appended before the failure, a prefix of what the page would have listed,
\* and none when there was no connection; the store is as it was.
C39_DashboardSurvivesStore == [][C39_Step]_vars
\* The latest-activity query of some row raised: the page shows an error
\* message and some of the alerts, not all.
C39_Witness ==
    /\ render.rendered
    /\ render.error_message = "DASHBOARD_DB_FETCH_ERROR"
    /\ render.now # NoneVal
    /\ render.alerts # <<>>
    /\ Len(render.alerts) < Len(AllAlerts(render))
    /\ db_calls.route = "dashboard_page"

\* ---------------------------------------------------------------- C32
SleepsOfTick(k) ==
    {i \in DOMAIN events : events[i].kind = "sleep" /\ events[i].tick = k}
SamplesOfTick(type, k) ==
    {i \in AppendEvents : events[i].tick = k /\ HasType(events[i].line, type)}
\* Every tick that ended slept once, the tick under way has not slept, and
\* nothing of a tick comes after its sleep.
C32_OneSleepPerTick ==
    /\ \A k \in 1 .. tick - 1 : Cardinality(SleepsOfTick(k)) = 1
    /\ SleepsOfTick(tick) = {}
    /\ \A i, j \in DOMAIN events :
          events[i].kind = "sleep" /\ i < j => events[i].tick < events[j].tick
\* A tick that reached its sleep built its two records, both in this tick,
\* and appended each at most once.
C32_Built ==
    pc = "sleep" =>
        /\ Len(machine_payload) = 1 /\ Len(application_payload) = 1
        /\ current_time = now
        /\ machine_payload[1].timestamp = IsoFormat(now)
        /\ application_payload[1].timestamp = IsoFormat(now)
        /\ Cardinality(SamplesOfTick("machine", tick)) <= 1
        /\ Cardinality(SamplesOfTick("application", tick)) <= 1
\* Unless the process is ended from outside: the end of a tick is the sleep
\* of 30 seconds, the handler of an escaped error does nothing but sleep 60
\* seconds, both start the next tick, and no other step sleeps or starts one.
C32_Step ==
    pc' # "terminated" =>
        /\ pc = "sleep" =>
               Added = SleepEvent(30) /\ now' = now + 30
                   /\ pc' = "top" /\ tick' = tick + 1
        /\ pc = "except" =>
               Added = SleepEvent(60) /\ now' = now + 60
                   /\ pc' = "top" /\ tick' = tick + 1
        /\ pc \notin {"sleep", "except"} =>
               /\ tick' = tick /\ now' = now
               /\ \A i \in DOMAIN Added : Added[i].kind # "sleep"
\* C32: a tick that runs to its end has built one machine and one
\* application record and is followed by one sleep of 30 seconds; a tick in
\* which an error escapes does nothing more, and is followed by one sleep of
\* 60 seconds and no other; either way the next tick starts, unless the
\* process is ended from outside.
C32_TickStateMachine ==
    /\ [](C32_OneSleepPerTick /\ C32_Built)
    /\ [][C32_Step]_vars
    /\ (pc = "except") ~> (pc = "top" \/ signalled)
    /\ (pc = "sleep") ~> (pc = "top" \/ signalled)
\* The first tick was abandoned and paid for with 60 seconds, the second
\* ran to its end and was followed by 30; the third is about to start.
C32_Witness ==
    /\ pc = "top" /\ tick = 3 /\ ~signalled
    /\ \E i \in SleepsOfTick(1) : events[i].secs = 60
    /\ \E i \in SleepsOfTick(2) : events[i].secs = 30
    /\ ~AppendedInTick("application", 1)
    /\ AppendedInTick("application", 2)

\* ---------------------------------------------------------------- C33
\* The accepted machine and ping records of a name, by position.
PresenceOf(name) ==
    {i \in DOMAIN served.accepted :
        /\ HasType(served.accepted[i], "machine")
               \/ HasType(served.accepted[i], "ping")
        /\ NameOf(served.accepted[i]) = name}
\* The timestamp of the last of them.
LastReported(name) ==
    Timestamp(served.accepted[CHOOSE i \in PresenceOf(name) :
                                  \A j \in PresenceOf(name) : j <= i])
C33_Step ==
    (/\ Served /\ served'.status = 200
     /\ HasType(served'.data, "machine") \/ HasType(served'.data, "ping")) =>
        \E c \in computers' :
            /\ c.netbios_name = NameOf(served'.data)
            /\ c.last_seen = Timestamp(served'.data)
C33_State ==
    \A c \in computers :
        PresenceOf(c.netbios_name) # {} =>
            /\ c.last_seen = LastReported(c.netbios_name)
            /\ render.rendered =>
                  Cardinality(AlertsFor(c.netbios_name, "Offline")) =
                      (IF render.now - LastReported(c.netbios_name) > 30 * 60
                       THEN 1 ELSE 0)
\* C33: an accepted machine or ping record leaves the computer's last_seen
\* equal to the record's own timestamp, whatever was stored before; so the
\* last_seen of a computer is the timestamp of the machine or ping record
\* accepted last for it, and a render lists it as Offline exactly when that
\* timestamp is more than 30 minutes before the render.
C33_LastSeenOverwritten == []C33_State /\ [][C33_Step]_vars
\* PC1 reported at instant 120 and then, accepted later, at instant 0: it is
\* stored as last seen at 0 and the render at 1860 lists it as Offline.
C33_Witness ==
    /\ \E i, j \in PresenceOf("PC1") :
          /\ i < j
          /\ Timestamp(served.accepted[i]) = 120
          /\ Timestamp(served.accepted[j]) = 0
          /\ \A k \in PresenceOf("PC1") : k <= j
    /\ \E c \in computers : c.netbios_name = "PC1" /\ c.last_seen = 0
    /\ render.rendered /\ render.now = 1860
    /\ AlertsFor("PC1", "Offline") # {}

\* ------------------------------------------------------------------ C34
\* C34: the ingestion store is append-only.  Over any sequence of requests
\* to /log_activity, answered 200 or not, with or without a failing
\* statement, no row of computers disappears (its id and its name are still
\* there afterwards), and every row of activity_logs and of
\* application_usage_logs that was committed is still there, field for
\* field, after every later request.
C34_Step ==
    /\ \A c \in computers :
           \E d \in computers' :
              d.id = c.id /\ d.netbios_name = c.netbios_name
    /\ activity_logs \subseteq activity_logs'
    /\ application_usage_logs \subseteq application_usage_logs'

C34_AppendOnly == [][C34_Step]_vars

\* Three records of one computer have been accepted, two machine records and
\* one application record, and the store holds the three samples.
C34_Witness ==
    /\ Len(served.accepted) = 3
    /\ \A i \in 1 .. 3 : NameOf(served.accepted[i]) = "PC1"
    /\ Cardinality(AcceptedOfType("machine")) = 2
    /\ Cardinality(AcceptedOfType("application")) = 1
    /\ Cardinality(activity_logs) = 2
    /\ Cardinality(application_usage_logs) = 1
    /\ Cardinality(computers) = 1

\* ------------------------------------------------------------------ C35
\* The title an application record carries: the empty string when the field
\* is absent.
TitleOf(data) ==
    IF "active_window_title" \in DOMAIN data
    THEN StrOrNone(data.active_window_title) ELSE ""
\* The accepted application records of a computer.
ApplicationsOf(name) ==
    {i \in DOMAIN served.accepted :
        /\ HasType(served.accepted[i], "application")
        /\ NameOf(served.accepted[i]) = name}
C35_Step ==
    (Served /\ served'.status = 200 /\ HasType(served'.data, "application")) =>
        /\ computers' = computers
        /\ activity_logs' = activity_logs
        /\ application_usage_logs \subseteq application_usage_logs'
        /\ \E c \in computers, row \in application_usage_logs' :
              /\ c.netbios_name = NameOf(served'.data)
              /\ application_usage_logs' \ application_usage_logs = {row}
              /\ row.computer_id = c.id
              /\ row.timestamp = Timestamp(served'.data)
              /\ row.active_window_title = TitleOf(served'.data)
C35_Offline ==
    \A c \in computers :
        PresenceOf(c.netbios_name) = {} =>
            /\ \E d \in TwoComputers.computers :
                  /\ d.id = c.id /\ d.last_seen = c.last_seen
                  /\ d.ip_address = c.ip_address /\ d.os_name = c.os_name
                  /\ d.os_version = c.os_version
            /\ (render.rendered /\ c.last_seen # NoneVal) =>
                  Cardinality(AlertsFor(c.netbios_name, "Offline")) =
                      (IF render.now - c.last_seen > 30 * 60 THEN 1 ELSE 0)
\* C35: an accepted application record adds exactly one row to
\* application_usage_logs, of the computer named, stamped with the record's
\* timestamp and titled with the record's active_window_title or the empty
\* string when the record has none; it adds no activity_logs row and leaves
\* every row of computers as it was.  So a computer for which only
\* application records were accepted keeps the ip_address, last_seen,
\* os_name and os_version it had, and a render lists it as Offline by that
\* last_seen, however recent the application records are.
C35_ApplicationRecord == []C35_Offline /\ [][C35_Step]_vars

\* An application record of PC1 without a title, stamped 60, was accepted and
\* stored with the empty title; PC1, last seen at 0, is listed as Offline by
\* the render at 1860, which is within 30 minutes of the record.
C35_Witness ==
    /\ served.status = 200
    /\ "active_window_title" \notin DOMAIN served.data
    /\ ApplicationsOf("PC1") # {} /\ PresenceOf("PC1") = {}
    /\ \E row \in application_usage_logs :
          row.active_window_title = "" /\ row.timestamp = 60
    /\ render.rendered /\ render.now - 60 <= 30 * 60
    /\ Cardinality(AlertsFor("PC1", "Offline")) = 1

\* ------------------------------------------------------------------ C36
\* The request served names a computer.
NamesComputer(data) ==
    "netbios_name" \in DOMAIN data /\ IsStrToken(data.netbios_name)
\* The row of the computer a request names, before the request.
RowOf(data) == CHOOSE c \in computers : c.netbios_name = NameOf(data)
OnKnown(data, type) ==
    /\ served'.status = 200 /\ HasType(data, type)
    /\ NamesComputer(data) /\ Known(NameOf(data))
C36_Frame ==
    /\ \A c \in computers :
          /\ \E d \in computers' :
                /\ d.id = c.id /\ d.netbios_name = c.netbios_name
                /\ d.group_id = c.group_id
          /\ (~NamesComputer(served'.data)
                 \/ c.netbios_name # NameOf(served'.data)) => c \in computers'
    /\ \A d \in computers' \ computers :
          /\ NamesComputer(served'.data)
          /\ d.netbios_name = NameOf(served'.data)
C36_Ping ==
    OnKnown(served'.data, "ping") =>
        /\ computers' = (computers \ {RowOf(served'.data)}) \cup
               {[RowOf(served'.data) EXCEPT
                   !.ip_address = Strip(PyStr(served'.data.ip_address)),
                   !.last_seen = Timestamp(served'.data)]}
        /\ activity_logs' = activity_logs
        /\ application_usage_logs' = application_usage_logs
C36_Machine ==
    OnKnown(served'.data, "machine") =>
        \E d \in computers' :
            /\ d.id = RowOf(served'.data).id
            /\ d.os_name = StrOrNone(Get(served'.data, "os_name"))
            /\ d.os_version = StrOrNone(Get(served'.data, "os_version"))
            /\ "os_name" \notin DOMAIN served'.data => d.os_name = NoneStr
            /\ "os_version" \notin DOMAIN served'.data =>
                   d.os_version = NoneStr
C36_Step == Served => (C36_Frame /\ C36_Ping /\ C36_Machine)

\* C36: a request to /log_activity, of any log_type and however it is
\* answered, leaves the group_id and the netbios_name of every computer as
\* they were and leaves every computer other than the one it names
\* untouched (a row it adds is the named computer's).  An accepted ping of a
\* known computer changes its ip_address and last_seen and nothing else
\* (os_name and os_version stay, no sample row is added); an accepted
\* machine record of a known computer sets os_name and os_version to the
\* record's values, NULL when the record does not have the fields.
C36_EndpointFrame == [][C36_Step]_vars

\* PC1, stored with Windows 10, was put into the group Lab; a machine record
\* of PC1 without os_name and os_version was then accepted: PC1 is still in
\* the group and its os_name and os_version are NULL.
C36_Witness ==
    /\ served.status = 200 /\ HasType(served.data, "machine")
    /\ "os_name" \notin DOMAIN served.data
    /\ group_api.route = "assign_computer_to_group" /\ group_api.status = 200
    /\ db_calls.route = "log_activity"
    /\ \E c \in computers :
          /\ c.netbios_name = "PC1" /\ c.group_id = 1
          /\ c.os_name = NoneStr /\ c.os_version = NoneStr
          /\ c.last_seen = Timestamp(served.data)

\* ------------------------------------------------------------------ C37
\* The appends of a tick that come before position i of the history.
AppendsBefore(i) ==
    {j \in AppendEvents : j < i /\ events[j].tick = events[i].tick}
SamplePosts == {i \in PostEvents : IsSample(events[i].body)}
\* C37: every machine or application record the agent posts has, as its
\* body, the very string that was handed to the local append earlier in the
\* same tick, whether or not that append reached the file; so no record is
\* posted without a local append having been tried first.  The ping payload
\* is posted only: no line handed to the local log has log_type ping, or is
\* the body of a ping that was posted.
C37_SentIsLogged ==
    /\ \A i \in SamplePosts :
          \E j \in AppendsBefore(i) : events[j].line = events[i].body
    /\ \A j \in AppendEvents :
          /\ ~HasType(events[j].line, "ping")
          /\ \A i \in PostEvents :
                IsPingPost(events[i]) => events[j].line # events[i].body

\* In one tick a ping was posted and its ping_status line appended, the
\* machine record's append failed and the record was posted all the same,
\* and the application record was appended and posted.
C37_Witness ==
    \E p, s, m, a \in PostEvents \cup AppendEvents :
        /\ IsPingPost(events[p]) /\ IsPingStatus(events[s]) /\ p < s
        /\ m \in SamplePosts /\ HasType(events[m].body, "machine")
        /\ \E j \in AppendsBefore(m) :
              events[j].line = events[m].body /\ ~events[j].ok
        /\ a \in SamplePosts /\ HasType(events[a].body, "application")
        /\ events[a].delivered
        /\ events[p].tick = events[a].tick /\ events[m].tick = events[a].tick

\* ------------------------------------------------------------------ C38
\* The place of a record in the tick's outbound order.
OutboundRank(body) ==
    IF HasType(body, "ping") THEN 1
    ELSE IF HasType(body, "machine") THEN 2 ELSE 3
\* The POSTs of tick k that were answered with success and tell the
\* collector that the computer is there.
PresenceAcceptedInTick(k) ==
    {i \in PostEvents :
        /\ events[i].tick = k /\ events[i].delivered
        /\ OutboundRank(events[i].body) < 3}
C38_Order ==
    \A i, j \in PostEvents :
        (i < j /\ events[i].tick = events[j].tick) =>
            OutboundRank(events[i].body) < OutboundRank(events[j].body)
\* A POST that reaches the collector is served in the step that makes it,
\* and the agent reads the answer in that step.
C38_Answered ==
    \A n \in DOMAIN Added :
        Added[n].kind = "post" =>
            /\ Served => served'.data = Added[n].body
            /\ Added[n].delivered <=> (Served /\ served'.status = 200)
C38_NotFound ==
    (Served /\ served'.status = 404 /\ HasType(served'.data, "application")) =>
        /\ PresenceOf(NameOf(served'.data)) = {}
        /\ ~Known(NameOf(served'.data))
        /\ PresenceAcceptedInTick(tick) = {}
\* C38: the POSTs of one tick leave the agent in the order ping, machine
\* record, application record, at most one of each, and each is answered
\* before the agent takes its next step.  Against a collector that serves
\* the requests as they arrive, an application record is answered 404 only
\* if no machine record and no ping of its computer has been accepted so
\* far; in particular never in a tick whose ping or machine record was
\* accepted.
C38_OutboundOrder == []C38_Order /\ [][C38_Answered /\ C38_NotFound]_vars

\* The agent's first tick followed has no ping due; its machine record is
\* refused by a failing store and its application record is answered 404.
\* In the next tick the ping, the machine record and the application record
\* are sent in that order and all accepted.
C38_Witness ==
    /\ served.count = 5 /\ Len(served.accepted) = 3 /\ db_faults = 1
    /\ served.status = 200 /\ HasType(served.data, "application")
    /\ HasType(served.accepted[1], "ping")
    /\ HasType(served.accepted[2], "machine")
    /\ Cardinality(PresenceAcceptedInTick(2)) = 2
    /\ \E i, j \in PostEvents :
          /\ i < j /\ events[i].tick = 1 /\ events[j].tick = 1
          /\ HasType(events[i].body, "machine") /\ ~events[i].delivered
          /\ HasType(events[j].body, "application") /\ ~events[j].delivered
====
